---- MODULE Spec2Model ----
(***************************************************************************)
(* PiSP Back End driver (drivers/media/platform/raspberrypi/pisp_be):      *)
(* job admission, dispatch and interrupt reconciliation.                   *)
(*                                                                         *)
(* The driver's handlers run under hw_lock (or in the interrupt handler)   *)
(* and are modelled as one step each; hw_queue_job, which runs after       *)
(* hw_lock has been released, is a step of its own, and so are the         *)
(* hardware starting and finishing a job.                                  *)
(***************************************************************************)
EXTENDS Integers, Sequences, FiniteSets, TLC

\* ---------------------------------------------------------------- constants
PISPBE_NUM_NODE_GROUPS == 2

MAIN_INPUT_NODE == 0
TDN_INPUT_NODE == 1
STITCH_INPUT_NODE == 2
HOG_OUTPUT_NODE == 3
OUTPUT0_NODE == 4
OUTPUT1_NODE == 5
TDN_OUTPUT_NODE == 6
STITCH_OUTPUT_NODE == 7
CONFIG_NODE == 8
PISPBE_NUM_NODES == 9

Groups == 0 .. (PISPBE_NUM_NODE_GROUPS - 1)
Nodes == 0 .. (PISPBE_NUM_NODES - 1)

\* job.node_group == NULL
NoGroup == -1

\* Faulty variant: the counter is wider than 8 bits
Inc8_NoWrap(x) == x + 1

\* u8 arithmetic of pispbe->done / pispbe->started
U8 == 256
Inc8(x) == (x + 1) % U8

\* -------------------------------------------------------------------- bounds
\* vb2 buffers of every queue: indices 1 .. NumBufs (0 is the NULL pointer)
NumBufs == 2
\* number of calls userspace makes in one run (buffer queue, stream on, stream off)
MaxOps == 6

Bufs == 1 .. NumBufs

\* the nodes userspace opens, per node group
UserNodes == [g \in Groups |->
                IF g = 0 THEN {CONFIG_NODE, MAIN_INPUT_NODE, OUTPUT0_NODE}
                         ELSE {CONFIG_NODE, MAIN_INPUT_NODE}]

\* BatchStatus values the hardware may show at probe time (done = started)
InitCounters == {3, 255}

\* the configs userspace submits: the enable words are sets of bit names
Configs ==
  { [bayer_enables |-> {}, rgb_enables |-> {"RGB_INPUT", "OUTPUT0"}, num_tiles |-> 1,
     tdn_reset |-> 0],
    [bayer_enables |-> {"BAYER_INPUT"}, rgb_enables |-> {}, num_tiles |-> 1,
     tdn_reset |-> 0] }

NoConfig == [bayer_enables |-> {}, rgb_enables |-> {}, num_tiles |-> 0, tdn_reset |-> 0]

\* ----------------------------------------------------------------- variables
VARIABLES
  ready_queue,    \* [g][n]: node->ready_queue, a FIFO of buffer indices
  owned,          \* [g][n]: buffers vb2 has handed to the driver and not got back
  config,         \* [g][index]: node_group->config[index]
  streaming_map,  \* [g]: set of streaming nodes (the bitmap)
  waiting,        \* set of <<g, n>>: stop_streaming blocked in vb2_wait_for_all_buffers
  sequence,       \* [g]: node_group->sequence
  hw_busy,        \* pispbe->hw_busy
  queued_job,     \* pispbe->queued_job
  running_job,    \* pispbe->running_job
  done,           \* pispbe->done
  started,        \* pispbe->started
  dispatch,       \* hw_queue_job calls in progress (hw_lock released, go not yet written)
  format,         \* [g][n]: node->format and node->pisp_format
  hwStarted,      \* BatchStatus byte 1
  hwDone,         \* BatchStatus byte 0
  hwQueued,       \* a job has been programmed and not started (Status bit 0)
  hwRunning,      \* the hardware executes a job
  hwTiles,        \* the tile count of the last go write (Control bits 16 and up)
  irq,            \* InterruptStatus is non-zero
  nops,           \* calls userspace has made so far
  arrived,        \* [g][n]: the buffers of owned[g][n] in the order vb2 handed them over
  pending,        \* the jobs admitted and not yet completed, in admission order
  log             \* what the last step did: buffers returned, attempts, errors

drv == <<ready_queue, owned, config, streaming_map, waiting, sequence, hw_busy,
         queued_job, running_job, done, started, dispatch, format>>
hw == <<hwStarted, hwDone, hwQueued, hwRunning, hwTiles, irq>>
order == <<arrived, pending>>
vars == <<drv, hw, order, nops, log>>

EmptyJob == [node_group |-> NoGroup, buf |-> [n \in Nodes |-> 0]]

\* what the interrupt handler found on entry; NoPre in every other step
NoPre == [started |-> -1, done |-> -1, hs |-> -1, hd |-> -1, hw_busy |-> -1,
          running_job |-> EmptyJob, queued_job |-> EmptyJob]

EmptyLog == [returned |-> <<>>,    \* vb2_buffer_done calls, in order
             completed |-> <<>>,   \* jobs given to pispbe_isr_jobdone, in order
             admitted |-> <<>>,    \* jobs written to the queued slot, in order
             handback |-> <<>>,    \* per vb2_buffer_done call: what arrived earlier
             tried |-> <<>>,       \* pispbe_schedule_internal calls, in order
             clobbered |-> {},     \* jobs overwritten in a slot
             resync |-> FALSE,     \* "PROBLEM: counters not matching!"
             isr |-> FALSE,        \* the step was the interrupt handler
             regs |-> <<>>,        \* register writes of hw_queue_job, in order
             job |-> <<>>,         \* the job hw_queue_job was called for
             mismatch |-> -1,      \* the address register that read back wrongly
             rejected |-> FALSE,   \* pispbe_node_buffer_prepare returned an error
             bad_job |-> FALSE,    \* "PROBLEM: Bad job"
             notsafe |-> FALSE,    \* "ERROR: not safe to queue new job!"
             stopped |-> <<>>,     \* <<g, n>>: pispbe_node_stop_streaming returned
             hw_lock |-> <<>>,     \* spin_lock/unlock of hw_lock by the scheduler
             held |-> <<>>,        \* per hw_queue_job call: the locks held by the caller
             pre |-> NoPre]

\* the locks a handler holds: hw_lock, and the ready_lock of nodes <<g, n>>
NoLocks == [hw_lock |-> FALSE, ready_lock |-> {}]

\* The driver state a handler works on, as one value.
Dev(ctx) ==
  [ready_queue |-> ready_queue, owned |-> owned, config |-> config,
   streaming_map |-> streaming_map, sequence |-> sequence, hw_busy |-> hw_busy,
   queued_job |-> queued_job, running_job |-> running_job, done |-> done,
   started |-> started, dispatch |-> dispatch, arrived |-> arrived,
   ctx |-> ctx, ret |-> 0, locks |-> NoLocks, log |-> EmptyLog]

\* seq without the first occurrence of x
RECURSIVE Without(_, _)
Without(seq, x) ==
  IF seq = <<>> THEN <<>>
  ELSE IF Head(seq) = x THEN Tail(seq)
  ELSE <<Head(seq)>> \o Without(Tail(seq), x)

\* seq without the elements of gone, one occurrence each
RECURSIVE WithoutAll(_, _)
WithoutAll(seq, gone) ==
  IF gone = <<>> THEN seq ELSE WithoutAll(Without(seq, Head(gone)), Tail(gone))

\* the elements of seq before the first occurrence of x
Before(seq, x) ==
  {seq[i] : i \in {j \in DOMAIN seq : \A k \in 1 .. j : seq[k] # x}}

\* The handler's result becomes the next state.
Commit(d) ==
  /\ arrived' = d.arrived
  /\ pending' = WithoutAll(pending, d.log.completed) \o d.log.admitted
  /\ ready_queue' = d.ready_queue
  /\ owned' = d.owned
  /\ config' = d.config
  /\ streaming_map' = d.streaming_map
  /\ sequence' = d.sequence
  /\ hw_busy' = d.hw_busy
  /\ queued_job' = d.queued_job
  /\ running_job' = d.running_job
  /\ done' = d.done
  /\ started' = d.started
  /\ dispatch' = d.dispatch
  /\ format' = format
  /\ log' = d.log

\* the buffers a job refers to, as <<group, node, buffer>>
JobBufSet(J) == {<<J.node_group, n, J.buf[n]>> : n \in {m \in Nodes : J.buf[m] # 0}}

\* ------------------------------------------------------------ list helpers
\* list_first_entry_or_null(&node->ready_queue, ...): 0 is NULL
Front(q) == IF q = <<>> THEN 0 ELSE Head(q)

\* the elements of a sequence
Range(q) == {q[k] : k \in 1 .. Len(q)}

\* list_del(&buf->ready_list)
ListDel(q, b) == SelectSeq(q, LAMBDA x : x # b)

\* vb2_buffer_done(&buf->vb.vb2_buf, state): the buffer goes back to vb2. The
\* log entry keeps whether vb2 still counted the buffer as owned by the driver.
vb2_buffer_done(d, g, n, b, state) ==
  [d EXCEPT !.owned[g][n] = @ \ {b},
            !.arrived[g][n] = Without(@, b),
            !.log.handback = Append(@, [group |-> g, node |-> n, buf |-> b,
                                        state |-> state,
                                        earlier |-> Before(d.arrived[g][n], b)]),
            !.log.returned = Append(@, [group |-> g, node |-> n, buf |-> b,
                                        state |-> state,
                                        sequence |-> d.sequence[g],
                                        was_owned |-> b \in d.owned[g][n]])]

\* ------------------------------------------------------------- admission
\* Faulty variant: no node needs a buffer
ignore_buffers_All(cfg, i) == TRUE

\* the test of lines 564-575: the node's block is not enabled in the config
ignore_buffers(cfg, i) ==
  \/ ("OUTPUT0" \notin cfg.rgb_enables /\ i = OUTPUT0_NODE)
  \/ ("OUTPUT1" \notin cfg.rgb_enables /\ i = OUTPUT1_NODE)
  \/ ("TDN_INPUT" \notin cfg.bayer_enables /\ i = TDN_INPUT_NODE)
  \/ ("TDN_OUTPUT" \notin cfg.bayer_enables /\ i = TDN_OUTPUT_NODE)
  \/ ("STITCH_INPUT" \notin cfg.bayer_enables /\ i = STITCH_INPUT_NODE)
  \/ ("STITCH_OUTPUT" \notin cfg.bayer_enables /\ i = STITCH_OUTPUT_NODE)

\* Faulty variant: the buffer of a node whose block the config does not enable
\* is left on its ready list
PeekBufs_SkipsIgnored(d, g) ==
  [i \in Nodes |->
     IF i = CONFIG_NODE THEN Front(d.ready_queue[g][CONFIG_NODE])
     ELSE IF i \notin d.streaming_map[g] THEN 0
     ELSE IF /\ d.ready_queue[g][CONFIG_NODE] # <<>>
             /\ ignore_buffers(d.config[g][Front(d.ready_queue[g][CONFIG_NODE])], i)
       THEN 0
     ELSE Front(d.ready_queue[g][i])]

\* Faulty variant: the newest ready buffer is taken instead of the oldest
PeekBufs_TakesLast(d, g) ==
  [i \in Nodes |->
     LET q == d.ready_queue[g][i]
     IN IF i # CONFIG_NODE /\ i \notin d.streaming_map[g] THEN 0
        ELSE IF q = <<>> THEN 0 ELSE q[Len(q)]]

\* buf[] as the first loop of pispbe_schedule_internal leaves it
PeekBufs(d, g) ==
  [i \in Nodes |->
     IF i = CONFIG_NODE THEN Front(d.ready_queue[g][CONFIG_NODE])
     ELSE IF i \notin d.streaming_map[g] THEN 0
     ELSE Front(d.ready_queue[g][i])]

\* spin_lock_irqsave(&pispbe->hw_lock) in function by
HwLock(d, by) ==
  [d EXCEPT !.locks.hw_lock = TRUE,
            !.log.hw_lock = Append(@, [op |-> "lock", by |-> by])]

\* spin_unlock_irqrestore(&pispbe->hw_lock) in function by
HwUnlock(d, by) ==
  [d EXCEPT !.locks.hw_lock = FALSE,
            !.log.hw_lock = Append(@, [op |-> "unlock", by |-> by])]

\* spin_lock_irqsave / spin_unlock_irqrestore of node i's ready_lock
ReadyLock(d, g, i) == [d EXCEPT !.locks.ready_lock = @ \cup {<<g, i>>}]

ReadyUnlock(d, g, i) == [d EXCEPT !.locks.ready_lock = @ \ {<<g, i>>}]

\* Faulty variant: the buffers are put in the job but left on their ready lists
PullBufs_NoListDel(d, g, buf) == d

\* lines 600-609 for node i and the nodes after it: list_del under ready_lock
RECURSIVE PullFrom(_, _, _, _)
PullFrom(d, g, buf, i) ==
  IF i >= PISPBE_NUM_NODES THEN d
  ELSE IF buf[i] # 0
    THEN LET l == ReadyLock(d, g, i)
             x == [l EXCEPT !.ready_queue[g][i] = ListDel(@, buf[i])]
         IN PullFrom(ReadyUnlock(x, g, i), g, buf, i + 1)
  ELSE PullFrom(d, g, buf, i + 1)

\* the loop of lines 599-610: pull the peeked buffers off their ready lists
PullBufs(d, g, buf) == PullFrom(d, g, buf, 0)

\* Faulty variant: the config buffer is taken off its list before the other nodes
\* are checked, and not put back on the way out
NothingToDo_ConfigTaken(d, g) ==
  [d EXCEPT !.ret = 0,
            !.ready_queue[g][CONFIG_NODE] = IF @ = <<>> THEN @ ELSE Tail(@),
            !.log.tried = Append(@, [group |-> g, ret |-> 0, busy |-> d.hw_busy])]

\* the "return 0" paths of pispbe_schedule_internal: nothing has been touched
NothingToDo(d, g) ==
  [d EXCEPT !.ret = 0,
            !.log.tried = Append(@, [group |-> g, ret |-> 0, busy |-> d.hw_busy])]

\* pispbe_schedule_internal: called with hw_lock held; ret = 1 when a job was
\* admitted (hw_lock released, hw_queue_job still to run).
pispbe_schedule_internal(d, g) ==
  LET buf == PeekBufs(d, g)
      cfg == d.config[g][buf[CONFIG_NODE]]
      nothing == NothingToDo(d, g)
  IN IF ~({CONFIG_NODE, MAIN_INPUT_NODE} \subseteq d.streaming_map[g])
       THEN nothing
     ELSE IF buf[CONFIG_NODE] = 0
       THEN nothing
     ELSE IF \E i \in Nodes \ {CONFIG_NODE} :
                /\ i \in d.streaming_map[g]
                /\ buf[i] = 0
                /\ ~ignore_buffers(cfg, i)
       THEN nothing
     ELSE
       LET p == HwUnlock(PullBufs(d, g, buf), "pispbe_schedule_internal")
       IN [p EXCEPT
             !.queued_job = [node_group |-> g, buf |-> buf],
             !.hw_busy = 1,
             !.dispatch = Append(@, [ctx |-> d.ctx, node_group |-> g,
                                     config_index |-> buf[CONFIG_NODE],
                                     buf |-> buf]),
             !.ret = 1,
             !.log.held = Append(@, p.locks),
             !.log.admitted = Append(@, [node_group |-> g, buf |-> buf]),
             !.log.tried = Append(@, [group |-> g, ret |-> 1, busy |-> d.hw_busy]),
             !.log.clobbered = IF d.queued_job.node_group # NoGroup
                                 THEN @ \cup {d.queued_job} ELSE @]

\* Faulty variant: no test of hw_busy
pispbe_schedule_one_NoBusyTest(d, g) == pispbe_schedule_internal(d, g)

\* Faulty variant: the caller releases hw_lock whatever the return value
pispbe_schedule_one_AlwaysUnlocks(d, g) ==
  LET l == HwLock(d, "pispbe_schedule_one")
  IN IF l.hw_busy # 0 THEN HwUnlock(l, "pispbe_schedule_one")
     ELSE HwUnlock(pispbe_schedule_internal(l, g), "pispbe_schedule_one")

\* pispbe_schedule_one
pispbe_schedule_one(d, g) ==
  LET l == HwLock(d, "pispbe_schedule_one")
  IN IF l.hw_busy # 0 THEN HwUnlock(l, "pispbe_schedule_one")
     ELSE LET r == pispbe_schedule_internal(l, g)
          IN IF r.ret = 0 THEN HwUnlock(r, "pispbe_schedule_one") ELSE r

\* Faulty variant: the loop goes on after a success
RECURSIVE ScanGroups_NoStop(_, _)
ScanGroups_NoStop(d, i) ==
  IF i >= PISPBE_NUM_NODE_GROUPS THEN d
  ELSE ScanGroups_NoStop(pispbe_schedule_internal(d, i), i + 1)

\* Faulty variant: the groups are tried from the last one down
RECURSIVE ScanGroups_Reverse(_, _)
ScanGroups_Reverse(d, i) ==
  IF i >= PISPBE_NUM_NODE_GROUPS THEN d
  ELSE LET r == pispbe_schedule_internal(d, PISPBE_NUM_NODE_GROUPS - 1 - i)
       IN IF r.ret # 0 THEN r ELSE ScanGroups_Reverse(r, i + 1)

\* the for loop of pispbe_schedule_any, from group i on
RECURSIVE ScanGroups(_, _)
ScanGroups(d, i) ==
  IF i >= PISPBE_NUM_NODE_GROUPS THEN d
  ELSE LET r == pispbe_schedule_internal(d, i)
       IN IF r.ret # 0 THEN r ELSE ScanGroups(r, i + 1)

\* Faulty variant: hw_busy is cleared whatever clear_hw_busy says
pispbe_schedule_any_AlwaysClears(d, clear_hw_busy) ==
  ScanGroups([d EXCEPT !.hw_busy = 0], 0)

\* pispbe_schedule_any
pispbe_schedule_any(d, clear_hw_busy) ==
  LET l == HwLock(d, "pispbe_schedule_any")
      c == IF clear_hw_busy # 0 THEN [l EXCEPT !.hw_busy = 0] ELSE l
  IN IF c.hw_busy = 0
       THEN LET r == ScanGroups(c, 0)
            IN IF r.ret # 0 THEN r ELSE HwUnlock(r, "pispbe_schedule_any")
       ELSE HwUnlock(c, "pispbe_schedule_any")

\* ----------------------------------------------------------- completion
\* Faulty variant: the loop stops one node early: the config buffer is not returned
RECURSIVE JobDoneFrom_StopsEarly(_, _, _)
JobDoneFrom_StopsEarly(d, job, i) ==
  IF i >= PISPBE_NUM_NODES - 1 THEN d
  ELSE IF job.buf[i] # 0
    THEN JobDoneFrom_StopsEarly(
           vb2_buffer_done(d, job.node_group, i, job.buf[i], "DONE"), job, i + 1)
  ELSE JobDoneFrom_StopsEarly(d, job, i + 1)

\* the loop of pispbe_isr_jobdone over buf[i], i = from .. PISPBE_NUM_NODES-1
RECURSIVE JobDoneFrom(_, _, _)
JobDoneFrom(d, job, i) ==
  IF i >= PISPBE_NUM_NODES THEN d
  ELSE IF job.buf[i] # 0
    THEN JobDoneFrom(vb2_buffer_done(d, job.node_group, i, job.buf[i], "DONE"),
                     job, i + 1)
  ELSE JobDoneFrom(d, job, i + 1)

\* Faulty variant: the sequence number is incremented before the buffers are stamped
pispbe_isr_jobdone_StampsAfter(d, job) ==
  LET r == JobDoneFrom([d EXCEPT !.sequence[job.node_group] = @ + 1], job, 0)
  IN [r EXCEPT !.log.completed = Append(@, job)]

\* pispbe_isr_jobdone (sequence is an unsigned int; it stays below MaxJobs here,
\* far from wrapping)
pispbe_isr_jobdone(d, job) ==
  LET r == JobDoneFrom(d, job, 0)
  IN [r EXCEPT !.sequence[job.node_group] = @ + 1,
               !.log.completed = Append(@, job)]

\* ------------------------------------------------------- interrupt handler
\* Faulty variant: the running job is completed without counting it
IsrRunningDone_NoIncrement(d, hd) ==
  IF d.running_job.node_group # NoGroup /\ d.done # hd
    THEN [pispbe_isr_jobdone(d, d.running_job) EXCEPT !.running_job = EmptyJob]
    ELSE d

\* lines 742-747: the running job is done
IsrRunningDone(d, hd) ==
  IF d.running_job.node_group # NoGroup /\ d.done # hd
    THEN [pispbe_isr_jobdone(d, d.running_job) EXCEPT
            !.running_job = EmptyJob,
            !.done = Inc8(@)]
    ELSE d

\* Faulty variant: a started job is completed at once
IsrStarted_AlwaysCompletes(d, hs, hd) ==
  IF d.started # hs
    THEN LET a == [d EXCEPT !.started = Inc8(@)]
             b == IF a.queued_job.node_group # NoGroup
                    THEN [pispbe_isr_jobdone(a, a.queued_job) EXCEPT
                            !.done = Inc8(@)]
                    ELSE a
         IN [b EXCEPT !.queued_job = EmptyJob]
    ELSE d

\* Faulty variant: a started job always becomes the running job
IsrStarted_AlwaysPromotes(d, hs, hd) ==
  IF d.started # hs
    THEN [d EXCEPT !.started = Inc8(@),
                   !.running_job = d.queued_job,
                   !.queued_job = EmptyJob]
    ELSE d

\* lines 749-763: a job has started; it is done already, or becomes the
\* running job
IsrStarted(d, hs, hd) ==
  IF d.started # hs
    THEN LET a == [d EXCEPT !.started = Inc8(@)]
             b == IF a.done # hd /\ a.queued_job.node_group # NoGroup
                    THEN [pispbe_isr_jobdone(a, a.queued_job) EXCEPT
                            !.done = Inc8(@)]
                    ELSE [a EXCEPT
                            !.running_job = a.queued_job,
                            !.log.clobbered =
                               IF a.running_job.node_group # NoGroup
                                 THEN @ \cup {a.running_job} ELSE @]
         IN [b EXCEPT !.queued_job = EmptyJob]
    ELSE d

\* lines 765-769: "PROBLEM: counters not matching!"
IsrResync(d, hs, hd) ==
  IF d.done # hd \/ d.started # hs
    THEN [d EXCEPT !.started = hs, !.done = hd, !.log.resync = TRUE]
    ELSE d

\* Faulty variant: the started counter is handled before the done counter
IsrReconcile_StartedFirst(d, hs, hd) ==
  IsrResync(IsrRunningDone(IsrStarted(d, hs, hd), hd), hs, hd)

\* lines 737-769 of pispbe_isr: the three steps before pispbe_schedule_any
IsrReconcile(d, hs, hd) ==
  IsrResync(IsrStarted(IsrRunningDone(d, hd), hs, hd), hs, hd)

\* pispbe_isr once InterruptStatus was found non-zero and written back;
\* hs, hd are the started and done bytes read from BatchStatus.
pispbe_isr(d, hs, hd) ==
  LET e == [d EXCEPT !.log.isr = TRUE,
                     !.log.pre = [started |-> d.started, done |-> d.done,
                                  hs |-> hs, hd |-> hd, hw_busy |-> d.hw_busy,
                                  running_job |-> d.running_job,
                                  queued_job |-> d.queued_job]]
  IN pispbe_schedule_any(IsrReconcile(e, hs, hd),
                         IF d.started # hs THEN 1 ELSE 0)

\* ---------------------------------------------------------------- dispatch
N_HW_ADDRESSES == 14
MAX_PLANES == 3
PISP_BACK_END_NUM_OUTPUTS == 2
PISP_BACK_END_NUM_TILES == 64

\* node->format and node->pisp_format as get_addr_3 reads them; pisp_format is
\* FALSE for a NULL pointer
DefaultFormat ==
  [pisp_format |-> TRUE, num_planes |-> 1, bytesperline |-> 1920,
   height |-> 1080, plane_factor |-> <<8, 2, 2>>]

\* vb2_dma_contig_plane_dma_addr(&buf->vb.vb2_buf, p) for buffer b of node n:
\* the address the allocator gave the plane (distinct and non-zero)
vb2_dma_contig_plane_dma_addr(n, b, p) == ((n + 1) * 16 + b) * 4096 + p * 1024

\* unsigned int arithmetic: a 32-bit value is the pair <<high, low>> of its
\* 16-bit halves
Half == 65536
Halves(x) == <<x \div Half, x % Half>>

\* a * b in unsigned int, b below 2^15
Mul32(a, b) ==
  LET lo == a[2] * b
      hi == a[1] * b + (lo \div Half)
  IN <<hi % Half, lo % Half>>

\* a >> 3
Shr3(a) == a[1] * (Half \div 8) + (a[2] \div 8)

\* size = bytesperline * height of plane 0 (lines 377-378), in unsigned int
PlaneSize(fmt) == Mul32(Halves(fmt.height), fmt.bytesperline)

\* the first loop of get_addr_3 from plane p on; st = [addr, plane_factor, p]
RECURSIVE PlaneAddrs(_, _, _, _, _)
PlaneAddrs(st, base, n, b, fmt) ==
  IF st.p < fmt.num_planes /\ st.p < 3
    THEN PlaneAddrs([addr |-> [st.addr EXCEPT ![base + st.p] =
                                 vb2_dma_contig_plane_dma_addr(n, b, st.p)],
                     plane_factor |-> st.plane_factor + fmt.plane_factor[st.p + 1],
                     p |-> st.p + 1],
                    base, n, b, fmt)
    ELSE st

\* the second loop of get_addr_3: the planes of a single-plane buffer
RECURSIVE PlaneOffsets(_, _, _)
PlaneOffsets(st, base, fmt) ==
  IF st.p < MAX_PLANES /\ fmt.plane_factor[st.p + 1] # 0
    THEN PlaneOffsets([addr |-> [st.addr EXCEPT ![base + st.p] =
                                   st.addr[base] +
                                   Shr3(Mul32(PlaneSize(fmt), st.plane_factor))],
                       plane_factor |-> st.plane_factor + fmt.plane_factor[st.p + 1],
                       p |-> st.p + 1],
                      base, fmt)
    ELSE st

\* Faulty variant: no test for a NULL buffer or a missing format
get_addr_3_NoNullTest(addr, base, n, b, fmt) ==
  [ret |-> fmt.num_planes, addr |-> addr]

\* get_addr_3(addr + base, buf, node): b is the buffer (0 for NULL) of node n,
\* fmt the node's format; the result is the return value and the address array
get_addr_3(addr, base, n, b, fmt) ==
  IF b = 0 \/ ~fmt.pisp_format
    THEN [ret |-> 0, addr |-> addr]
    ELSE LET first == PlaneAddrs([addr |-> addr, plane_factor |-> 0, p |-> 0],
                                 base, n, b, fmt)
         IN [ret |-> fmt.num_planes, addr |-> PlaneOffsets(first, base, fmt).addr]

\* get_addr
get_addr(n, b) == IF b # 0 THEN vb2_dma_contig_plane_dma_addr(n, b, 0) ELSE 0

\* Faulty variant: the TDN bit is cleared with the reset flag set as well
FixupTdnInput_AlwaysClearsTdn(en, a, cfg) ==
  IF a = 0 \/ "TDN_INPUT" \notin en \/ "TDN" \notin en \/ cfg.tdn_reset = 1
    THEN en \ {"TDN_INPUT", "TDN_DECOMPRESS", "TDN"}
    ELSE en

\* fixup_addrs_enables, lines 443-453: the TDN input
FixupTdnInput(en, a, cfg) ==
  IF a = 0 \/ "TDN_INPUT" \notin en \/ "TDN" \notin en \/ cfg.tdn_reset = 1
    THEN (en \ {"TDN_INPUT", "TDN_DECOMPRESS"})
           \ (IF cfg.tdn_reset # 1 THEN {"TDN"} ELSE {})
    ELSE en

\* Faulty variant: a usable Stitch input switches the decompressor on
FixupStitchInput_ForcesDecompress(en, a) ==
  IF a = 0 \/ "STITCH_INPUT" \notin en \/ "STITCH" \notin en
    THEN en \ {"STITCH_INPUT", "STITCH_DECOMPRESS", "STITCH"}
    ELSE en \cup {"STITCH_DECOMPRESS"}

\* lines 454-462: the Stitch input
FixupStitchInput(en, a) ==
  IF a = 0 \/ "STITCH_INPUT" \notin en \/ "STITCH" \notin en
    THEN en \ {"STITCH_INPUT", "STITCH_DECOMPRESS", "STITCH"}
    ELSE en

\* Faulty variant: the output bits are kept when the output has no address
FixupAuxOutputs_KeepsBits(en, tdn, stitch) == en

\* lines 464-473: the TDN and Stitch outputs
FixupAuxOutputs(en, tdn, stitch) ==
  (en \ (IF tdn = 0 THEN {"TDN_COMPRESS", "TDN_OUTPUT"} ELSE {}))
     \ (IF stitch = 0 THEN {"STITCH_COMPRESS", "STITCH_OUTPUT"} ELSE {})

\* the bit PISP_BE_RGB_ENABLE_OUTPUT0 << i
OutputBit(i) == IF i = 0 THEN "OUTPUT0" ELSE "OUTPUT1"

\* lines 480-485: the loop over the main image outputs, from output i on;
\* st = [addrs, rgb]
RECURSIVE FixupOutputs(_, _, _, _)
FixupOutputs(st, i, buf, fmt) ==
  IF i >= PISP_BACK_END_NUM_OUTPUTS THEN st
  ELSE LET r == get_addr_3(st.addrs, 7 + 3 * i, OUTPUT0_NODE + i,
                           buf[OUTPUT0_NODE + i], fmt[OUTPUT0_NODE + i])
       IN FixupOutputs([addrs |-> r.addr,
                        rgb |-> IF r.ret <= 0 THEN st.rgb \ {OutputBit(i)}
                                              ELSE st.rgb],
                       i + 1, buf, fmt)

\* Faulty variant: without Bayer input the Bayer pipe is sanitized like with it,
\* not disabled
FixupBayer_KeepsPipe(cfg, a3, a4, a5, a6) ==
  FixupAuxOutputs(FixupStitchInput(FixupTdnInput(cfg.bayer_enables, a3, cfg), a4),
                  a5, a6)

\* lines 437-477: hw_enables[0] once the main input has been found; a3..a6 are
\* the addresses of the TDN input, Stitch input, TDN output and Stitch output
FixupBayer(cfg, a3, a4, a5, a6) ==
  IF "BAYER_INPUT" \in cfg.bayer_enables
    THEN FixupAuxOutputs(
           FixupStitchInput(FixupTdnInput(cfg.bayer_enables, a3, cfg), a4), a5, a6)
    ELSE {}

\* fixup_addrs_enables: cfg is the config, buf[n] the job's buffer of node n
\* (0 for NULL), fmt[n] the format of node n, junk what the caller's
\* uninitialised hw_dma_addrs array holds. The result is the address array and
\* the two enable words (hw_enables[0] is the first).
fixup_addrs_enables(cfg, buf, fmt, junk) ==
  LET addrs0 == [u \in 0 .. (N_HW_ADDRESSES - 1) |-> junk]
      main == get_addr_3(addrs0, 0, MAIN_INPUT_NODE, buf[MAIN_INPUT_NODE],
                         fmt[MAIN_INPUT_NODE])
  IN IF main.ret <= 0
       THEN [addrs |-> main.addr, hw_enables |-> <<{}, {}>>]
     ELSE
       LET a3 == get_addr(TDN_INPUT_NODE, buf[TDN_INPUT_NODE])
           a4 == get_addr(STITCH_INPUT_NODE, buf[STITCH_INPUT_NODE])
           a5 == get_addr(TDN_OUTPUT_NODE, buf[TDN_OUTPUT_NODE])
           a6 == get_addr(STITCH_OUTPUT_NODE, buf[STITCH_OUTPUT_NODE])
           a13 == get_addr(HOG_OUTPUT_NODE, buf[HOG_OUTPUT_NODE])
           aux == IF "BAYER_INPUT" \in cfg.bayer_enables
                    THEN [main.addr EXCEPT ![3] = a3, ![4] = a4, ![5] = a5, ![6] = a6]
                    ELSE main.addr
           out == FixupOutputs([addrs |-> aux, rgb |-> cfg.rgb_enables], 0, buf, fmt)
       IN [addrs |-> [out.addrs EXCEPT ![13] = a13],
           hw_enables |-> <<FixupBayer(cfg, a3, a4, a5, a6),
                            IF a13 = 0 THEN out.rgb \ {"HOG"} ELSE out.rgb>>]

\* Faulty variant: the tile count is not tested
BadJob_IgnoresTiles(cfg, hw_enables) ==
  ~("BAYER_INPUT" \in hw_enables[1] \/ "RGB_INPUT" \in hw_enables[2])

\* the test of lines 631-633: the job is bad. The mask PISP_BE_BAYER_ENABLE_INPUT
\* is applied to the OR of both words: it is bit 0, the input bit of either word.
BadJob(cfg, hw_enables) ==
  \/ cfg.num_tiles <= 0
  \/ cfg.num_tiles > PISP_BACK_END_NUM_TILES
  \/ ~("BAYER_INPUT" \in hw_enables[1] \/ "RGB_INPUT" \in hw_enables[2])

\* Faulty variant: the enable words are written before the addresses
ProgramJob_EnablesFirst(addrs, hw_enables, cfg) ==
  << [reg |-> "GLOBAL_BAYER_ENABLE", u |-> 0, val |-> hw_enables[1]],
     [reg |-> "GLOBAL_RGB_ENABLE", u |-> 0, val |-> hw_enables[2]] >>
  \o [u \in 1 .. N_HW_ADDRESSES |-> [reg |-> "IO_ADDR", u |-> u - 1, val |-> addrs[u - 1]]]
  \o << [reg |-> "CONFIG", u |-> 0, val |-> cfg] >>

\* the register writes of lines 306-326: addresses, enables, config window
ProgramJob(addrs, hw_enables, cfg) ==
  [u \in 1 .. N_HW_ADDRESSES |-> [reg |-> "IO_ADDR", u |-> u - 1, val |-> addrs[u - 1]]]
  \o << [reg |-> "GLOBAL_BAYER_ENABLE", u |-> 0, val |-> hw_enables[1]],
        [reg |-> "GLOBAL_RGB_ENABLE", u |-> 0, val |-> hw_enables[2]],
        [reg |-> "CONFIG", u |-> 0, val |-> cfg] >>

\* Faulty variant: the addresses are not read back
hw_queue_job_NoReadback(addrs, hw_enables, cfg, tiles, num_tiles, mismatch) ==
  ProgramJob(addrs, hw_enables, cfg)
  \o << [reg |-> "TILE_ADDR", u |-> 0, val |-> tiles],
        [reg |-> "CONTROL", u |-> 0, val |-> 3 + 65536 * num_tiles] >>

\* hw_queue_job: the register writes, in order. mismatch is the first address
\* register that reads back differently from what was written
\* (N_HW_ADDRESSES when all read back as written).
hw_queue_job(addrs, hw_enables, cfg, tiles, num_tiles, mismatch) ==
  ProgramJob(addrs, hw_enables, cfg)
  \o (IF mismatch < N_HW_ADDRESSES
        THEN <<>>
        ELSE << [reg |-> "TILE_ADDR", u |-> 0, val |-> tiles],
                [reg |-> "CONTROL", u |-> 0, val |-> 3 + 65536 * num_tiles] >>)

\* ---------------------------------------------------------------- handlers
\* pisp_be_validate_config: exactly one of the two inputs is enabled
pisp_be_validate_config(c) ==
  ("BAYER_INPUT" \in c.bayer_enables) # ("RGB_INPUT" \in c.rgb_enables)

\* pispbe_node_buffer_queue (for the config node after pispbe_node_buffer_prepare
\* has copied the buffer into node_group->config[index] and accepted it)
BufferQueued(d, g, n, b, c) ==
  LET prep == IF n = CONFIG_NODE THEN [d EXCEPT !.config[g][b] = c] ELSE d
  IN [prep EXCEPT !.ready_queue[g][n] = Append(@, b),
                  !.owned[g][n] = @ \cup {b},
                  !.arrived[g][n] = Append(@, b)]

pispbe_node_buffer_queue(d, g, n, b, c) ==
  pispbe_schedule_one(BufferQueued(d, g, n, b, c), g)

\* pispbe_node_start_streaming
StreamingSet(d, g, n) ==
  [d EXCEPT !.streaming_map[g] = @ \cup {n}, !.sequence[g] = 0]

pispbe_node_start_streaming(d, g, n) ==
  pispbe_schedule_one(StreamingSet(d, g, n), g)

\* pispbe_node_streamon: INIT_LIST_HEAD(&node->ready_queue), then vb2_streamon,
\* which calls start_streaming unless the queue is streaming already.
pispbe_node_streamon(d, g, n) ==
  LET i == [d EXCEPT !.ready_queue[g][n] = <<>>]
  IN IF n \in d.streaming_map[g] THEN i ELSE pispbe_node_start_streaming(i, g, n)

\* a do-while that ends after its first pass
DrainReady_OnlyFirst(d, g, n) ==
  LET buf == Front(d.ready_queue[g][n])
  IN IF buf = 0 THEN d
     ELSE vb2_buffer_done([d EXCEPT !.ready_queue[g][n] = ListDel(@, buf)],
                          g, n, buf, "ERROR")

\* the do-while of pispbe_node_stop_streaming: every ready buffer is returned
\* in error state
RECURSIVE DrainReady(_, _, _)
DrainReady(d, g, n) ==
  LET buf == Front(d.ready_queue[g][n])
  IN IF buf = 0 THEN d
     ELSE DrainReady(vb2_buffer_done([d EXCEPT !.ready_queue[g][n] = ListDel(@, buf)],
                                     g, n, buf, "ERROR"), g, n)

\* vb2 passes buffer b to the buf_queue op of node n: the queue streams, no
\* other call holds the node's lock, and the driver does not own b
CanQueue(g, n, b) ==
  /\ n \in UserNodes[g]
  /\ n \in streaming_map[g]
  /\ <<g, n>> \notin waiting
  /\ b \notin owned[g][n]
  /\ \A x \in Bufs \ owned[g][n] : b <= x   \* buffers are interchangeable

\* pispbe_node_buffer_prepare of a config buffer that pisp_be_validate_config
\* refuses: the config has been copied to node_group->config[index], the buffer
\* stays with vb2
PrepareRejected(d, g, b, c) ==
  [d EXCEPT !.config[g][b] = c, !.ret = -1, !.log.rejected = TRUE]

\* VIDIOC_QBUF of buffer b on node n: buf_prepare, then buf_queue; c is the
\* content of a config buffer (NoConfig on the other nodes)
BufferQueue(g, n, b, c) ==
  /\ CanQueue(g, n, b)
  /\ IF n = CONFIG_NODE THEN c # NoConfig ELSE c = NoConfig
  /\ nops < MaxOps
  /\ Commit(IF n = CONFIG_NODE /\ ~pisp_be_validate_config(c)
              THEN PrepareRejected(Dev("thread"), g, b, c)
              ELSE pispbe_node_buffer_queue(Dev("thread"), g, n, b, c))
  /\ nops' = nops + 1
  /\ UNCHANGED <<waiting, hw>>

StreamOn(g, n) ==
  /\ n \in UserNodes[g]
  /\ <<g, n>> \notin waiting
  /\ nops < MaxOps
  /\ Commit(pispbe_node_streamon(Dev("thread"), g, n))
  /\ nops' = nops + 1
  /\ UNCHANGED <<waiting, hw>>

\* pispbe_node_stop_streaming up to vb2_wait_for_all_buffers
StopStreaming(g, n) ==
  /\ n \in streaming_map[g]
  /\ <<g, n>> \notin waiting
  /\ nops < MaxOps
  /\ Commit(DrainReady(Dev("thread"), g, n))
  /\ waiting' = waiting \cup {<<g, n>>}
  /\ nops' = nops + 1
  /\ UNCHANGED hw

\* vb2_wait_for_all_buffers returns, the streaming bit is cleared
StopStreamingReturn(g, n) ==
  /\ <<g, n>> \in waiting
  /\ owned[g][n] = {}
  /\ Commit([Dev("thread") EXCEPT !.streaming_map[g] = @ \ {n},
                                   !.log.stopped = <<g, n>>])
  /\ waiting' = waiting \ {<<g, n>>}
  /\ UNCHANGED <<hw, nops>>

\* the formats of the nodes: the default pispbe_node_def_fmt sets
Formats == [n \in Nodes |-> DefaultFormat]

\* what the uninitialised hw_dma_addrs array of pispbe_schedule_internal may hold
JunkValues == {0, 57005}

\* where the read-back loop of hw_queue_job may find its first mismatch: at the
\* first address, at the last one, or nowhere
Mismatches == {0, N_HW_ADDRESSES - 1, N_HW_ADDRESSES}

\* the address of the tile descriptors of config buffer index of group g
TilesAddr(g, index) == (g + 1) * 1048576 + index * 8192 + 512

\* The part of pispbe_schedule_internal that runs after hw_lock is released,
\* for the k-th dispatch in progress: the addresses and enables are sanitized,
\* a bad job gets tile count 0, and hw_queue_job programs the registers.
HwQueueJob(k, mismatch, junk) ==
  /\ k \in 1 .. Len(dispatch)
  /\ LET e == dispatch[k]
         cfg == config[e.node_group][e.config_index]
         fx == fixup_addrs_enables(cfg, e.buf, format[e.node_group], junk)
         bad == BadJob(cfg, fx.hw_enables)
         num_tiles == IF bad THEN 0 ELSE cfg.num_tiles
         regs == hw_queue_job(fx.addrs, fx.hw_enables, cfg,
                              TilesAddr(e.node_group, e.config_index),
                              num_tiles, mismatch)
         go == regs[Len(regs)].reg = "CONTROL"
     IN /\ hwQueued' = (hwQueued \/ go)
        /\ hwTiles' = IF go THEN num_tiles ELSE hwTiles
        /\ log' = [EmptyLog EXCEPT !.regs = regs, !.job = <<e>>,
                                   !.mismatch = mismatch,
                                   !.bad_job = bad, !.notsafe = hwQueued]
  /\ dispatch' = SubSeq(dispatch, 1, k - 1) \o SubSeq(dispatch, k + 1, Len(dispatch))
  /\ UNCHANGED <<ready_queue, owned, config, streaming_map, waiting, sequence,
                 hw_busy, queued_job, running_job, done, started, format,
                 hwStarted, hwDone, hwRunning, irq, nops, order>>

\* the hardware starts the programmed job
HwStart ==
  /\ hwQueued /\ ~hwRunning
  /\ hwTiles > 0
  /\ hwQueued' = FALSE
  /\ hwRunning' = TRUE
  /\ hwStarted' = Inc8(hwStarted)
  /\ irq' = TRUE
  /\ log' = EmptyLog
  /\ UNCHANGED <<drv, hwDone, hwTiles, nops, order>>

\* the hardware finishes the job it executes
HwFinish ==
  /\ hwRunning
  /\ hwRunning' = FALSE
  /\ hwDone' = Inc8(hwDone)
  /\ irq' = TRUE
  /\ log' = EmptyLog
  /\ UNCHANGED <<drv, hwStarted, hwQueued, hwTiles, nops, order>>

\* pispbe_isr; the handler is not re-entered while its own hw_queue_job runs
Isr ==
  /\ irq
  /\ \A k \in 1 .. Len(dispatch) : dispatch[k].ctx # "isr"
  /\ irq' = FALSE
  /\ Commit(pispbe_isr(Dev("isr"), hwStarted, hwDone))
  /\ UNCHANGED <<waiting, hwStarted, hwDone, hwQueued, hwRunning, hwTiles, nops>>

Init ==
  /\ ready_queue = [g \in Groups |-> [n \in Nodes |-> <<>>]]
  /\ owned = [g \in Groups |-> [n \in Nodes |-> {}]]
  /\ config = [g \in Groups |-> [b \in Bufs |-> NoConfig]]
  /\ streaming_map = [g \in Groups |-> {}]
  /\ waiting = {}
  /\ sequence = [g \in Groups |-> 0]
  /\ hw_busy = 0
  /\ queued_job = EmptyJob
  /\ running_job = EmptyJob
  /\ \E c \in InitCounters :
        /\ done = c /\ started = c /\ hwDone = c /\ hwStarted = c
  /\ dispatch = <<>>
  /\ format = [g \in Groups |-> Formats]
  /\ hwQueued = FALSE
  /\ hwRunning = FALSE
  /\ hwTiles = 0
  /\ irq = FALSE
  /\ nops = 0
  /\ arrived = [g \in Groups |-> [n \in Nodes |-> <<>>]]
  /\ pending = <<>>
  /\ log = EmptyLog

Next ==
  \/ \E g \in Groups, n \in Nodes, b \in Bufs, c \in Configs \cup {NoConfig} :
        BufferQueue(g, n, b, c)
  \/ \E g \in Groups, n \in Nodes : StreamOn(g, n)
  \/ \E g \in Groups, n \in Nodes : StopStreaming(g, n)
  \/ \E g \in Groups, n \in Nodes : StopStreamingReturn(g, n)
  \/ \E k \in 1 .. Len(dispatch), mismatch \in Mismatches, junk \in JunkValues :
        HwQueueJob(k, mismatch, junk)
  \/ HwStart
  \/ HwFinish
  \/ Isr

Spec == Init /\ [][Next]_vars

\* ------------------------------------------- configs userspace may get wrong
\* configs with a tile count of 0 or above the maximum, and one with both inputs
BadConfigs ==
  { [bayer_enables |-> {"BAYER_INPUT"}, rgb_enables |-> {}, num_tiles |-> 0,
     tdn_reset |-> 0],
    [bayer_enables |-> {}, rgb_enables |-> {"RGB_INPUT", "OUTPUT0"},
     num_tiles |-> PISP_BACK_END_NUM_TILES + 1, tdn_reset |-> 0],
    [bayer_enables |-> {"BAYER_INPUT"}, rgb_enables |-> {"RGB_INPUT"},
     num_tiles |-> 1, tdn_reset |-> 0] }

\* by how much a job of 0 tiles moves both counters ("it increments
\* (started,done) counters by more than 1", lines 638-641)
BadJobJumps == {2, 3}

\* the hardware takes a job programmed with 0 tiles
HwBadJob ==
  /\ hwQueued /\ ~hwRunning
  /\ hwTiles = 0
  /\ hwQueued' = FALSE
  /\ \E j \in BadJobJumps :
        /\ hwStarted' = (hwStarted + j) % U8
        /\ hwDone' = (hwDone + j) % U8
  /\ irq' = TRUE
  /\ log' = EmptyLog
  /\ UNCHANGED <<drv, hwRunning, hwTiles, nops, order>>

NextBad ==
  \/ \E g \in Groups, n \in Nodes, b \in Bufs,
        c \in Configs \cup BadConfigs \cup {NoConfig} : BufferQueue(g, n, b, c)
  \/ \E g \in Groups, n \in Nodes : StreamOn(g, n)
  \/ \E g \in Groups, n \in Nodes : StopStreaming(g, n)
  \/ \E g \in Groups, n \in Nodes : StopStreamingReturn(g, n)
  \/ \E k \in 1 .. Len(dispatch), mismatch \in Mismatches, junk \in JunkValues :
        HwQueueJob(k, mismatch, junk)
  \/ HwStart
  \/ HwFinish
  \/ HwBadJob
  \/ Isr

SpecBad == Init /\ [][NextBad]_vars

\* ------------------------------------------------- the dispatch on its own
\* The sanitizer and hw_queue_job as functions of the job they are given: a
\* config, the buffers of the job and the formats of the nodes are drawn, and
\* the part of pispbe_schedule_internal after the admission is applied.
BayerInput == {"BAYER_INPUT"}
TdnBits == {"TDN_INPUT", "TDN", "TDN_DECOMPRESS", "TDN_COMPRESS", "TDN_OUTPUT"}
StitchBits == {"STITCH_INPUT", "STITCH", "STITCH_DECOMPRESS", "STITCH_COMPRESS",
               "STITCH_OUTPUT"}
RgbBits == {"RGB_INPUT", "OUTPUT0", "OUTPUT1", "HOG"}

\* the Bayer enable words drawn: with and without the input bit, every set of
\* TDN bits, four sets of Stitch bits
DrawnBayer ==
  {i \cup t \cup st :
     i \in {{}, BayerInput}, t \in SUBSET TdnBits,
     st \in {{}, StitchBits, {"STITCH_INPUT", "STITCH"},
              {"STITCH_COMPRESS", "STITCH_OUTPUT"}}}

DrawnConfigs ==
  {[bayer_enables |-> b, rgb_enables |-> r, num_tiles |-> 1, tdn_reset |-> t] :
     b \in DrawnBayer, r \in {{}, RgbBits}, t \in {0, 1}}

\* a main input node on which no format the driver knows is set
NoFormat == [DefaultFormat EXCEPT !.pisp_format = FALSE]

\* the jobs drawn: buffer 1 of the nodes in with (and of the config node)
JobWith(with) ==
  [node_group |-> 0,
   buf |-> [n \in Nodes |-> IF n \in with \cup {CONFIG_NODE} THEN 1 ELSE 0]]

DrawnJobs ==
  {JobWith(m \cup t \cup st \cup o) :
     m \in {{}, {MAIN_INPUT_NODE}},
     t \in SUBSET {TDN_INPUT_NODE, TDN_OUTPUT_NODE},
     st \in {{}, {STITCH_INPUT_NODE, STITCH_OUTPUT_NODE}},
     o \in {{}, {OUTPUT0_NODE, OUTPUT1_NODE, HOG_OUTPUT_NODE}}}

\* the state in which job j of group 0, with config c in slot 1 and format f
\* on the main input, has been admitted and is about to be programmed
DispatchOf(c, j, f) ==
  /\ ready_queue = [g \in Groups |-> [n \in Nodes |-> <<>>]]
  /\ config = [g \in Groups |-> [b \in Bufs |->
                 IF g = 0 /\ b = 1 THEN c ELSE NoConfig]]
  /\ queued_job = j
  /\ running_job = EmptyJob
  /\ owned = [g \in Groups |-> [n \in Nodes |->
                {b \in Bufs : <<g, n, b>> \in JobBufSet(queued_job)}]]
  /\ arrived = [g \in Groups |-> [n \in Nodes |->
                  IF owned[g][n] = {} THEN <<>> ELSE <<1>>]]
  /\ pending = <<queued_job>>
  /\ streaming_map = [g \in Groups |->
                        IF g = 0 THEN {n \in Nodes : queued_job.buf[n] # 0}
                                        \cup {MAIN_INPUT_NODE}
                                 ELSE {}]
  /\ waiting = {}
  /\ sequence = [g \in Groups |-> 0]
  /\ hw_busy = 1
  /\ done = 3 /\ started = 3 /\ hwDone = 3 /\ hwStarted = 3
  /\ dispatch = <<[ctx |-> "thread", node_group |-> 0, config_index |-> 1,
                   buf |-> queued_job.buf]>>
  /\ format = [g \in Groups |-> [Formats EXCEPT ![MAIN_INPUT_NODE] = f]]
  /\ hwQueued = FALSE
  /\ hwRunning = FALSE
  /\ hwTiles = 0
  /\ irq = FALSE
  /\ nops = 0
  /\ log = EmptyLog

InitDispatch ==
  \E c \in DrawnConfigs, j \in DrawnJobs, f \in {DefaultFormat, NoFormat} :
     DispatchOf(c, j, f)

NextDispatch ==
  \E junk \in JunkValues : HwQueueJob(1, N_HW_ADDRESSES, junk)

SpecDispatch == InitDispatch /\ [][NextDispatch]_vars

\* ------------------------------------------------- get_addr_3 on its own
\* the formats drawn for the main input: one buffer plane or three, plane
\* factors of three-plane, two-plane and one-plane layouts, a small and a
\* large image
DrawnFormats ==
  {[pisp_format |-> TRUE, num_planes |-> np, bytesperline |-> bpl,
    height |-> h, plane_factor |-> pf] :
     np \in {1, 3}, bpl \in {1920, 32768}, h \in {1080, 16384},
     pf \in {<<4, 2, 2>>, <<8, 2, 2>>, <<8, 4, 4>>, <<8, 8, 8>>, <<8, 4, 0>>,
              <<8, 0, 0>>}}

\* a config that enables the Bayer input only
InputOnly ==
  [bayer_enables |-> BayerInput, rgb_enables |-> {}, num_tiles |-> 1,
   tdn_reset |-> 0]

InitAddr ==
  \E f \in DrawnFormats, b \in Bufs :
     DispatchOf(InputOnly,
                [node_group |-> 0,
                 buf |-> [n \in Nodes |->
                            IF n = MAIN_INPUT_NODE THEN b
                            ELSE IF n = CONFIG_NODE THEN 1 ELSE 0]],
                f)

NextAddr ==
  \E junk \in JunkValues : HwQueueJob(1, N_HW_ADDRESSES, junk)

SpecAddr == InitAddr /\ [][NextAddr]_vars

\* ------------------------------------------------- the admission on its own
\* pispbe_schedule_internal as a function of what it finds in group 0: the
\* streaming bits, which ready lists hold a buffer and the enable bits of the
\* front config are drawn, and one admission attempt is made.
ConditionalNodes ==
  {OUTPUT0_NODE, OUTPUT1_NODE, TDN_INPUT_NODE, TDN_OUTPUT_NODE,
   STITCH_INPUT_NODE, STITCH_OUTPUT_NODE}

\* the enable bit lines 564-575 test for a conditional node
FeatureBit(n) ==
  CASE n = OUTPUT0_NODE -> "OUTPUT0"
    [] n = OUTPUT1_NODE -> "OUTPUT1"
    [] n = TDN_INPUT_NODE -> "TDN_INPUT"
    [] n = TDN_OUTPUT_NODE -> "TDN_OUTPUT"
    [] n = STITCH_INPUT_NODE -> "STITCH_INPUT"
    [] n = STITCH_OUTPUT_NODE -> "STITCH_OUTPUT"

\* the subsets of S drawn: none, one, all but one, all
Sparse(S) == {{}, S} \cup {{x} : x \in S} \cup {S \ {x} : x \in S}

DrawnStreaming ==
  {a \cup h \cup c :
     a \in {{CONFIG_NODE, MAIN_INPUT_NODE}, {CONFIG_NODE}, {MAIN_INPUT_NODE}},
     h \in SUBSET {HOG_OUTPUT_NODE}, c \in Sparse(ConditionalNodes)}

DrawnReady ==
  {a \cup c : a \in SUBSET {CONFIG_NODE, MAIN_INPUT_NODE, HOG_OUTPUT_NODE},
               c \in Sparse(ConditionalNodes)}

\* the configs drawn: the Bayer input and the bits of the nodes in c
FeatureConfig(c) ==
  [bayer_enables |-> BayerInput \cup
                       {FeatureBit(n) : n \in c \ {OUTPUT0_NODE, OUTPUT1_NODE}},
   rgb_enables |-> {FeatureBit(n) : n \in c \cap {OUTPUT0_NODE, OUTPUT1_NODE}},
   num_tiles |-> 1, tdn_reset |-> 0]

InitAdmit ==
  /\ streaming_map \in {[g \in Groups |-> IF g = 0 THEN m ELSE {}] :
                          m \in DrawnStreaming}
  /\ \E r \in DrawnReady :
        /\ ready_queue = [g \in Groups |-> [n \in Nodes |->
                            IF g = 0 /\ n \in r THEN <<1>> ELSE <<>>]]
        /\ owned = [g \in Groups |-> [n \in Nodes |->
                      IF g = 0 /\ n \in r THEN {1} ELSE {}]]
  /\ arrived = ready_queue
  /\ \E c \in Sparse(ConditionalNodes) :
        config = [g \in Groups |-> [b \in Bufs |->
                    IF g = 0 /\ b = 1 THEN FeatureConfig(c) ELSE NoConfig]]
  /\ pending = <<>>
  /\ waiting = {}
  /\ sequence = [g \in Groups |-> 0]
  /\ hw_busy = 0
  /\ queued_job = EmptyJob
  /\ running_job = EmptyJob
  /\ done = 3 /\ started = 3 /\ hwDone = 3 /\ hwStarted = 3
  /\ dispatch = <<>>
  /\ format = [g \in Groups |-> Formats]
  /\ hwQueued = FALSE
  /\ hwRunning = FALSE
  /\ hwTiles = 0
  /\ irq = FALSE
  /\ nops = 0
  /\ log = EmptyLog

\* one call of pispbe_schedule_one for group 0
Admit ==
  /\ nops = 0
  /\ Commit(pispbe_schedule_one(Dev("thread"), 0))
  /\ nops' = 1
  /\ UNCHANGED <<waiting, hw>>

NextAdmit == Admit

SpecAdmit == InitAdmit /\ [][NextAdmit]_vars

\* ------------------------------------------------- the reconciler on its own
\* pispbe_isr as a function of what it finds: the shadow counters are whatever
\* BatchStatus showed at the last interrupt, the slots hold whatever was
\* admitted, and the hardware counters are read from a register. With hardware
\* whose counters jump (the comment at lines 634-643) every combination arises,
\* so the handler is applied to each of them.
IsrCounters == {0, 3, 4, 5, 255}

\* a job of group g made of config buffer b and main input buffer b
MkJob(g, b) ==
  [node_group |-> g,
   buf |-> [n \in Nodes |-> IF n \in {CONFIG_NODE, MAIN_INPUT_NODE} THEN b ELSE 0]]

InitIsr ==
  /\ config = [g \in Groups |-> [b \in Bufs |-> InputOnly]]
  /\ streaming_map = [g \in Groups |-> {CONFIG_NODE, MAIN_INPUT_NODE}]
  /\ waiting = {}
  /\ running_job \in {EmptyJob} \cup {MkJob(g, 1) : g \in Groups}
  /\ queued_job \in {EmptyJob} \cup {MkJob(g, 2) : g \in Groups}
  /\ ready_queue \in
       {[g \in Groups |-> [n \in Nodes |->
           IF g \in r /\ n \in {CONFIG_NODE, MAIN_INPUT_NODE} THEN <<2>>
                                                               ELSE <<>>]] :
          r \in IF queued_job = EmptyJob THEN SUBSET Groups ELSE {{}}}
  /\ owned = [g \in Groups |-> [n \in Nodes |->
                {b \in Bufs : \/ <<g, n, b>> \in JobBufSet(running_job)
                                                \cup JobBufSet(queued_job)
                              \/ b \in Range(ready_queue[g][n])}]]
  /\ sequence \in [Groups -> {0, 1}]
  /\ hw_busy \in {0, 1}
  /\ started \in IsrCounters /\ done \in IsrCounters
  /\ hwStarted \in IsrCounters /\ hwDone \in IsrCounters
  /\ dispatch = <<>>
  /\ format = [g \in Groups |-> Formats]
  /\ hwQueued = FALSE
  /\ hwRunning = FALSE
  /\ hwTiles = 0
  /\ irq = TRUE
  /\ nops = 0
  /\ arrived = [g \in Groups |-> [n \in Nodes |->
                  SelectSeq(<<running_job.buf[n], queued_job.buf[n]>>,
                            LAMBDA b : <<g, n, b>> \in JobBufSet(running_job)
                                                      \cup JobBufSet(queued_job))
                  \o ready_queue[g][n]]]
  /\ pending = SelectSeq(<<running_job, queued_job>>, LAMBDA J : J # EmptyJob)
  /\ log = EmptyLog

NextIsr == Isr

SpecIsr == InitIsr /\ [][NextIsr]_vars

\* ==================================================================== claims
\* the buffers handed to vb2_buffer_done in the last step
ReturnedSet(l) ==
  {<<l.returned[k].group, l.returned[k].node, l.returned[k].buf>> :
     k \in DOMAIN l.returned}

\* the vb2_buffer_done calls that complete job J with sequence number seq
JobEntries(J, seq) ==
  LET all == [i \in 1 .. PISPBE_NUM_NODES |->
                [group |-> J.node_group, node |-> i - 1, buf |-> J.buf[i - 1],
                 state |-> "DONE", sequence |-> seq, was_owned |-> TRUE]]
  IN SelectSeq(all, LAMBDA e : e.buf # 0)

\* a job was admitted in the last step
Admitted == \E k \in DOMAIN log.tried : log.tried[k].ret = 1

\* the driver states on which the handlers call pispbe_schedule_internal
AttemptStates ==
  {Dev("thread")}
  \cup UNION {{BufferQueued(Dev("thread"), x[1], x[2], x[3],
                             IF x[2] = CONFIG_NODE THEN c ELSE NoConfig) :
                  c \in Configs} :
                x \in {y \in Groups \X Nodes \X Bufs : CanQueue(y[1], y[2], y[3])}}
  \cup {StreamingSet(Dev("thread"), x[1], x[2]) :
          x \in {y \in Groups \X Nodes : y[2] \in UserNodes[y[1]]}}
  \cup {IsrReconcile(Dev("isr"), hwStarted, hwDone)}

SameDriverState(r, d) ==
  /\ r.ready_queue = d.ready_queue
  /\ r.owned = d.owned
  /\ r.config = d.config
  /\ r.streaming_map = d.streaming_map
  /\ r.sequence = d.sequence
  /\ r.hw_busy = d.hw_busy
  /\ r.queued_job = d.queued_job
  /\ r.running_job = d.running_job
  /\ r.done = d.done
  /\ r.started = d.started
  /\ r.dispatch = d.dispatch
  /\ r.log.returned = d.log.returned

\* C1: an admission attempt that fails (pispbe_schedule_internal returns 0)
\* leaves every ready list, both job slots, hw_busy and the shadow counters as
\* they were; this is checked on every state a handler can make the attempt on.
C1_AdmissionAtomicity ==
  \A d \in AttemptStates : \A g \in Groups :
     LET r == pispbe_schedule_internal(d, g)
     IN r.ret = 0 => SameDriverState(r, d)

\* the last step made an attempt that failed although the config and the main
\* input node stream and a config buffer is ready: the main input is missing
C1_Witness ==
  \E k \in DOMAIN log.tried :
     LET g == log.tried[k].group
     IN /\ log.tried[k].ret = 0
        /\ {CONFIG_NODE, MAIN_INPUT_NODE} \subseteq streaming_map[g]
        /\ ready_queue[g][CONFIG_NODE] # <<>>
        /\ ready_queue[g][MAIN_INPUT_NODE] = <<>>

\* C2: a job is admitted only while hw_busy is 0, by pispbe_schedule_one and
\* by pispbe_schedule_any alike.
C2_NoAdmissionWhileBusy ==
  \A k \in DOMAIN log.tried : log.tried[k].ret = 1 => log.tried[k].busy = 0

\* the interrupt handler found hw_busy set, cleared it and admitted a job
C2_Witness == log.isr /\ log.pre.hw_busy = 1 /\ Admitted

\* C3: admission writes the queued slot, and promotion the running slot, only
\* when the slot is empty: no job is overwritten in a slot.
C3_SlotExclusivity == log.clobbered = {}

\* the interrupt handler promoted the queued job and admitted the next one
C3_Witness ==
  /\ log.isr
  /\ log.pre.queued_job # EmptyJob
  /\ running_job = log.pre.queued_job
  /\ queued_job # EmptyJob
  /\ Admitted

\* the case of C4: shadow (3,3), running slot empty, a job queued, the
\* hardware reports (4,4)
C4_Case ==
  /\ log.isr
  /\ log.pre.started = 3 /\ log.pre.done = 3
  /\ log.pre.hs = 4 /\ log.pre.hd = 4
  /\ log.pre.running_job = EmptyJob
  /\ log.pre.queued_job # EmptyJob

C5_Case ==
  /\ log.isr
  /\ log.pre.started = 3 /\ log.pre.done = 3
  /\ log.pre.hs = 4 /\ log.pre.hd = 5
  /\ log.pre.running_job # EmptyJob
  /\ log.pre.queued_job # EmptyJob

\* C5: the running job is completed, then the queued job is completed without
\* ever being the running job; the shadow counters become started = 4,
\* done = 5, neither slot holds one of the two jobs any more (the queued slot is
\* empty unless the closing pispbe_schedule_any admitted a new job), and no
\* resynchronisation is logged.
C5_CoalescedCompletion ==
  C5_Case =>
    LET R == log.pre.running_job
        Q == log.pre.queued_job
        same == R.node_group = Q.node_group
        seqR == sequence[R.node_group] - (IF same THEN 2 ELSE 1)
        seqQ == sequence[Q.node_group] - 1
    IN /\ log.completed = <<R, Q>>
       /\ log.returned = JobEntries(R, seqR) \o JobEntries(Q, seqQ)
       /\ running_job = EmptyJob
       /\ (queued_job = EmptyJob \/ Admitted)
       /\ started = 4 /\ done = 5
       /\ ~log.resync

C5_Witness == C5_Case /\ Len(log.completed) = 2 /\ running_job = EmptyJob

\* C6 as stated: a group's sequence counter is set to 0 when the group goes
\* from no streaming node to a streaming node, and decreases in no other step.
C6_SequenceReset ==
  [][\A g \in Groups :
        IF streaming_map[g] = {} /\ streaming_map'[g] # {}
          THEN sequence'[g] = 0
          ELSE sequence'[g] >= sequence[g]]_vars

\* C7: every job completion increments the sequence counter of the job's group
\* by exactly 1 and stamps every buffer of the job with the value before the
\* increment; the counters of the other groups do not change.
C7_SequenceIncrement ==
  [][log'.isr =>
       /\ \A g \in Groups :
             sequence'[g] = sequence[g]
                + Cardinality({k \in DOMAIN log'.completed :
                                  log'.completed[k].node_group = g})
       /\ \A k \in DOMAIN log'.completed :
             LET J == log'.completed[k]
                 earlier == Cardinality({j \in 1 .. (k - 1) :
                               log'.completed[j].node_group = J.node_group})
             IN \A n \in Nodes :
                  J.buf[n] # 0 =>
                    \E i \in DOMAIN log'.returned :
                       LET e == log'.returned[i]
                       IN /\ e.group = J.node_group /\ e.node = n
                          /\ e.buf = J.buf[n] /\ e.state = "DONE"
                          /\ e.sequence = sequence[J.node_group] + earlier]_vars

\* one interrupt completed two jobs
C7_Witness == log.isr /\ Len(log.completed) = 2

\* how many of the ready list and the two slots hold buffer b of node n of group g
Holders(g, n, b) ==
  Cardinality({i \in DOMAIN ready_queue[g][n] : ready_queue[g][n][i] = b})
  + (IF queued_job.node_group = g /\ queued_job.buf[n] = b THEN 1 ELSE 0)
  + (IF running_job.node_group = g /\ running_job.buf[n] = b THEN 1 ELSE 0)

\* C8: every buffer is held by at most one of a ready list, the queued slot
\* and the running slot, only buffers that vb2 handed over and has not got
\* back are held, and vb2_buffer_done is called at most once per hand-over.
C8_SingleOwnership ==
  /\ \A g \in Groups, n \in Nodes, b \in Bufs :
        /\ Holders(g, n, b) <= 1
        /\ Holders(g, n, b) = 1 => b \in owned[g][n]
  /\ \A k \in DOMAIN log.returned : log.returned[k].was_owned

\* an interrupt returned the buffers of a job and admitted the next job
C8_Witness == log.isr /\ log.returned # <<>> /\ Admitted

\* C9 as stated: a buffer leaves a ready list only by being taken into the
\* admitted job or by being returned in error state by stop-streaming.
C9_OwnershipTransfer ==
  [][\A g \in Groups, n \in Nodes, b \in Bufs :
        (/\ \E i \in DOMAIN ready_queue[g][n] : ready_queue[g][n][i] = b
         /\ \A i \in DOMAIN ready_queue'[g][n] : ready_queue'[g][n][i] # b)
        => \/ queued_job'.node_group = g /\ queued_job'.buf[n] = b
           \/ \E k \in DOMAIN log'.returned :
                 /\ log'.returned[k].group = g /\ log'.returned[k].node = n
                 /\ log'.returned[k].buf = b /\ log'.returned[k].state = "ERROR"]_vars

\* C10: in every step the buffers of a job held in a slot are returned all
\* together or not at all, and a job whose buffers were returned has left the
\* slots.
C10_NeverPartiallyAbandoned ==
  [][\A J \in {queued_job, running_job} :
        J # EmptyJob =>
          \/ JobBufSet(J) \cap ReturnedSet(log') = {}
          \/ /\ JobBufSet(J) \subseteq ReturnedSet(log')
             /\ queued_job' # J /\ running_job' # J]_vars

\* an interrupt completed a job of three buffers (config, main input, output 0)
C10_Witness ==
  /\ log.isr
  /\ \E k \in DOMAIN log.completed :
        /\ Cardinality(JobBufSet(log.completed[k])) >= 3
        /\ JobBufSet(log.completed[k]) \subseteq ReturnedSet(log)

\* C11: at most one execution of hw_queue_job (from the release of hw_lock to
\* the go write or the early return) is in progress at any time, over all
\* threads and the interrupt handler.
C11_OneDispatchInFlight == Len(dispatch) <= 1

\* the interrupt handler ran while a thread was inside hw_queue_job
C11_Witness == Len(dispatch) = 1 /\ dispatch[1].ctx = "thread" /\ log.isr

\* C12: hw_busy goes from set to clear only in pispbe_schedule_any called by
\* the interrupt handler with clear_hw_busy non-zero (the started counter has
\* moved); no other step takes hw_busy from 1 to 0.
C12_OnlyIsrClearsBusy ==
  [][(hw_busy # 0 /\ ~(log'.isr /\ log'.pre.started # log'.pre.hs))
        => hw_busy' # 0]_vars

\* the interrupt handler cleared hw_busy and found no job to admit
C12_Witness == log.isr /\ log.pre.hw_busy = 1 /\ hw_busy = 0

\* C13: jobs are completed in the order in which they were admitted: the jobs
\* a step completes are, in order, the oldest jobs admitted and not yet
\* completed.
C13_JobFifoOrder ==
  [][\A k \in DOMAIN log'.completed :
        k <= Len(pending) /\ log'.completed[k] = pending[k]]_vars

\* an interrupt completed the running job while a later job waits in the
\* queued slot
C13_Witness ==
  /\ log.isr
  /\ log.pre.running_job # EmptyJob
  /\ log.completed = <<log.pre.running_job>>
  /\ queued_job # EmptyJob
  /\ pending = <<queued_job>>

\* buffer x of node n of group g sits on the ready list or in a job slot
Held(g, n, x) == Holders(g, n, x) >= 1

\* C14 as stated: whenever a buffer of a node is returned (done or error), no
\* buffer that arrived earlier at that node is still on the ready list or in a
\* job slot.
C14_Original ==
  [][\A k \in DOMAIN log'.handback :
        LET e == log'.handback[k]
        IN \A x \in e.earlier : ~Held(e.group, e.node, x)]_vars

\* C14 amended: a buffer completed by the interrupt handler is returned before
\* every later arrival of its node, and a buffer cancelled by stop-streaming
\* before every later arrival on the ready list; a cancelled buffer may be
\* returned before an earlier arrival that a job slot holds.
C14_Amended ==
  [][\A k \in DOMAIN log'.handback :
        LET e == log'.handback[k]
        IN \A x \in e.earlier :
              IF e.state = "DONE"
                THEN ~Held(e.group, e.node, x)
                ELSE \A i \in DOMAIN ready_queue[e.group][e.node] :
                        ready_queue[e.group][e.node][i] # x]_vars

\* stop-streaming cancelled a buffer while a job slot holds an earlier arrival
\* of the same node
C14_Witness ==
  \E k \in DOMAIN log.handback :
     LET e == log.handback[k]
     IN /\ e.state = "ERROR"
        /\ \E x \in e.earlier : Held(e.group, e.node, x)

\* the names of the registers written by the last step, in order
RegsWritten == [i \in DOMAIN log.regs |-> log.regs[i].reg]

\* C15: when an address register reads back a value other than the one
\* written, hw_queue_job writes neither the tile-descriptor pointer nor the
\* control register, and the hardware is left with no new job.
C15_ReadbackAbort ==
  [][(log'.job # <<>> /\ log'.mismatch < N_HW_ADDRESSES) =>
        /\ \A i \in DOMAIN log'.regs : log'.regs[i].reg \notin {"TILE_ADDR", "CONTROL"}
        /\ hwQueued' = hwQueued
        /\ hwTiles' = hwTiles]_vars

\* the last of the 14 addresses read back wrongly, after all the addresses,
\* the enables and the config had been written
C15_Witness ==
  /\ log.job # <<>>
  /\ log.mismatch = N_HW_ADDRESSES - 1
  /\ Len(log.regs) = N_HW_ADDRESSES + 3
  /\ ~hwQueued

\* the value the last step wrote to register r (a one-element set, or empty)
Written(l, r) == {l.regs[i].val : i \in {j \in DOMAIN l.regs : l.regs[j].reg = r}}

\* the job of the last hw_queue_job call is degenerate: its tile count is 0 or
\* less, or above the maximum, or neither sanitized enable word has its input bit
Degenerate(l, cfg) ==
  \/ cfg.num_tiles <= 0
  \/ cfg.num_tiles > PISP_BACK_END_NUM_TILES
  \/ /\ \A w \in Written(l, "GLOBAL_BAYER_ENABLE") : "BAYER_INPUT" \notin w
     /\ \A w \in Written(l, "GLOBAL_RGB_ENABLE") : "RGB_INPUT" \notin w

\* C16: a degenerate job is dispatched all the same: unless the read-back
\* fails the go bits are written with tile count 0, the job stays in the queued
\* slot and hw_busy stays set.
C16_DegenerateDispatched ==
  [][(log'.job # <<>>
       /\ Degenerate(log', config[log'.job[1].node_group][log'.job[1].config_index]))
      => /\ log'.bad_job
         /\ (log'.mismatch = N_HW_ADDRESSES =>
               /\ Written(log', "CONTROL") = {3}
               /\ log'.regs[Len(log'.regs)].reg = "CONTROL"
               /\ hwQueued' /\ hwTiles' = 0)
         /\ queued_job' = [node_group |-> log'.job[1].node_group,
                           buf |-> log'.job[1].buf]
         /\ hw_busy' = 1]_vars

\* a job whose config has more tiles than the maximum was dispatched
C16_Witness ==
  /\ log.job # <<>>
  /\ config[log.job[1].node_group][log.job[1].config_index].num_tiles
        > PISP_BACK_END_NUM_TILES
  /\ log.mismatch = N_HW_ADDRESSES
  /\ hwQueued /\ hwTiles = 0

\* C17 as stated: a config with a tile count outside 1 .. maximum is refused by
\* buffer-prepare: no such config is on the config node's ready list or in the
\* job of a slot.
C17_ConfigRejected ==
  \A g \in Groups :
     \A b \in {ready_queue[g][CONFIG_NODE][i] : i \in DOMAIN ready_queue[g][CONFIG_NODE]}
           \cup {J.buf[CONFIG_NODE] : J \in {K \in {queued_job, running_job} :
                                               K.node_group = g}} :
        config[g][b].num_tiles \in 1 .. PISP_BACK_END_NUM_TILES

\* the config of the job the last step dispatched
DispatchedConfig == config[log.job[1].node_group][log.job[1].config_index]

\* C18: when the job has no main-input buffer, or the main-input node has no
\* format, both enable words written to the hardware are zero, whatever the
\* config requests.
C18_BayerGate ==
  (/\ log.job # <<>>
   /\ \/ log.job[1].buf[MAIN_INPUT_NODE] = 0
      \/ ~format[log.job[1].node_group][MAIN_INPUT_NODE].pisp_format)
  => /\ Written(log, "GLOBAL_BAYER_ENABLE") = {{}}
     /\ Written(log, "GLOBAL_RGB_ENABLE") = {{}}

\* a job without main-input buffer whose config requests every bit drawn
C18_Witness ==
  /\ log.job # <<>>
  /\ log.job[1].buf[MAIN_INPUT_NODE] = 0
  /\ DispatchedConfig.bayer_enables = BayerInput \cup TdnBits \cup StitchBits
  /\ DispatchedConfig.rgb_enables = RgbBits
  /\ log.job[1].buf[TDN_INPUT_NODE] # 0

\* C19: when the config does not request the Bayer input, the Bayer enable
\* word written to the hardware has no TDN and no Stitch bit, whatever buffers
\* the job has.
C19_AuxiliaryGate ==
  (log.job # <<>> /\ "BAYER_INPUT" \notin DispatchedConfig.bayer_enables)
  => /\ Written(log, "GLOBAL_BAYER_ENABLE") # {}
     /\ \A w \in Written(log, "GLOBAL_BAYER_ENABLE") :
           w \cap (TdnBits \cup StitchBits) = {}

\* the config requests every TDN and Stitch bit without the Bayer input, and
\* the job has the main input and all four TDN and Stitch buffers
C19_Witness ==
  /\ log.job # <<>>
  /\ DispatchedConfig.bayer_enables = TdnBits \cup StitchBits
  /\ \A n \in {MAIN_INPUT_NODE, TDN_INPUT_NODE, TDN_OUTPUT_NODE,
               STITCH_INPUT_NODE, STITCH_OUTPUT_NODE} : log.job[1].buf[n] # 0
  /\ format[log.job[1].node_group][MAIN_INPUT_NODE].pisp_format

\* job slot j holds a buffer of node n of group g
SlotRefers(j, g, n) == j # EmptyJob /\ j.node_group = g /\ j.buf[n] # 0

\* C20: pispbe_node_stop_streaming returns every buffer of the node's ready
\* list in error state, and when it returns the ready list is empty, the
\* node's streaming bit is clear and neither job slot holds a buffer of the
\* node.
C20_StopStreamingPost ==
  [][\A g \in Groups, n \in Nodes :
       /\ (<<g, n>> \notin waiting /\ <<g, n>> \in waiting')
          => /\ \A b \in Range(ready_queue[g][n]) :
                  \E k \in 1 .. Len(log'.handback) :
                     /\ log'.handback[k].group = g
                     /\ log'.handback[k].node = n
                     /\ log'.handback[k].buf = b
                     /\ log'.handback[k].state = "ERROR"
             /\ ready_queue'[g][n] = <<>>
       /\ (<<g, n>> \in waiting /\ <<g, n>> \notin waiting')
          => /\ ready_queue'[g][n] = <<>>
             /\ n \notin streaming_map'[g]
             /\ ~SlotRefers(queued_job', g, n)
             /\ ~SlotRefers(running_job', g, n)]_vars

\* stop-streaming of the main input has returned after a job of the group
\* completed
C20_Witness ==
  /\ log.stopped = <<0, MAIN_INPUT_NODE>>
  /\ sequence[0] >= 1
  /\ MAIN_INPUT_NODE \notin streaming_map[0]
  /\ CONFIG_NODE \in streaming_map[0]

\* (size * f) / 8 over the integers, for size = 8q + r
Eighths(size, f) == (size \div 8) * f + (((size % 8) * f) \div 8)

\* the value the last step wrote to address register u
IoAddr(u) ==
  log.regs[CHOOSE i \in DOMAIN log.regs :
             log.regs[i].reg = "IO_ADDR" /\ log.regs[i].u = u].val

\* C21: for a three-plane format in a single buffer plane with plane factors
\* f0, f1, f2, addr[1] = addr[0] + (size * f0) / 8 and
\* addr[2] = addr[0] + (size * (f0 + f1)) / 8 with size = bytesperline * height;
\* for a buffer of three planes each address is the plane's own address.
C21_PlaneAddresses ==
  log.job # <<>> =>
    LET e == log.job[1]
        fmt == format[e.node_group][MAIN_INPUT_NODE]
        b == e.buf[MAIN_INPUT_NODE]
        size == fmt.bytesperline * fmt.height
        f == fmt.plane_factor
    IN /\ (b # 0 /\ fmt.pisp_format /\ fmt.num_planes = 1 /\ f[2] # 0 /\ f[3] # 0)
          => /\ IoAddr(0) = vb2_dma_contig_plane_dma_addr(MAIN_INPUT_NODE, b, 0)
             /\ IoAddr(1) = IoAddr(0) + Eighths(size, f[1])
             /\ IoAddr(2) = IoAddr(0) + Eighths(size, f[1] + f[2])
       /\ (b # 0 /\ fmt.pisp_format /\ fmt.num_planes = 3)
          => \A p \in 0 .. 2 :
                IoAddr(p) = vb2_dma_contig_plane_dma_addr(MAIN_INPUT_NODE, b, p)

\* C22: a job is admitted for a group only when the config node and the main
\* input node of the group both stream, and every job written to the queued
\* slot holds a config buffer and a main-input buffer.
C22_ConfigAndMainInput ==
  [][/\ \A k \in DOMAIN log'.admitted :
          LET J == log'.admitted[k]
          IN /\ {CONFIG_NODE, MAIN_INPUT_NODE} \subseteq streaming_map'[J.node_group]
             /\ J.buf[CONFIG_NODE] # 0
             /\ J.buf[MAIN_INPUT_NODE] # 0
     /\ queued_job' # EmptyJob
        => /\ queued_job'.buf[CONFIG_NODE] # 0
           /\ queued_job'.buf[MAIN_INPUT_NODE] # 0]_vars

\* a job was admitted for group 0 while output 0 streams without a buffer
C22_Witness ==
  /\ log.admitted # <<>>
  /\ queued_job = log.admitted[1]
  /\ queued_job.node_group = 0
  /\ OUTPUT0_NODE \in streaming_map[0]
  /\ queued_job.buf[OUTPUT0_NODE] = 0

\* node n of group g streams and its ready list is empty
StreamingEmpty(g, n) == n \in streaming_map[g] /\ ready_queue[g][n] = <<>>

\* the config of the buffer at the front of the config node's ready list
FrontConfig(g) ==
  IF ready_queue[g][CONFIG_NODE] = <<>> THEN NoConfig
  ELSE config[g][Front(ready_queue[g][CONFIG_NODE])]

\* C23: an admission attempt for a group fails exactly when the config or the
\* main-input node does not stream, or some streaming node with an empty ready
\* list is required: a node outside the six conditional ones (the HoG output
\* among them, whatever the config enables), or a conditional node whose bit
\* is set in the front config. Empty lists of nodes that do not stream, and of
\* conditional nodes whose bit is clear, never make it fail.
C23_RequiredBuffers ==
  [][\A k \in DOMAIN log'.tried :
       LET g == log'.tried[k].group
       IN log'.tried[k].ret = 0
          <=> \/ ~({CONFIG_NODE, MAIN_INPUT_NODE} \subseteq streaming_map[g])
              \/ ready_queue[g][CONFIG_NODE] = <<>>
              \/ \E n \in Nodes \ {CONFIG_NODE} :
                    /\ StreamingEmpty(g, n)
                    /\ \/ n \notin ConditionalNodes
                       \/ FeatureBit(n) \in FrontConfig(g).bayer_enables
                                              \cup FrontConfig(g).rgb_enables]_vars

\* the attempt failed only because the streaming HoG output has no buffer,
\* with a config that enables no output
C23_Witness ==
  /\ log.tried # <<>>
  /\ log.tried[1].ret = 0
  /\ log.tried[1].group = 0
  /\ {CONFIG_NODE, MAIN_INPUT_NODE, HOG_OUTPUT_NODE} \subseteq streaming_map[0]
  /\ StreamingEmpty(0, HOG_OUTPUT_NODE)
  /\ \A n \in Nodes \ {HOG_OUTPUT_NODE} : ~StreamingEmpty(0, n)
  /\ FrontConfig(0) = FeatureConfig({})

\* the job holds a buffer of conditional node n although its config does not
\* enable the node's block
Unneeded(J, n) ==
  /\ n \in ConditionalNodes
  /\ J.buf[n] # 0
  /\ FeatureBit(n) \notin config[J.node_group][J.buf[CONFIG_NODE]].bayer_enables
                            \cup config[J.node_group][J.buf[CONFIG_NODE]].rgb_enables

\* C24: an admitted job takes the front buffer of every streaming node whose
\* ready list is not empty, conditional nodes whose bit is clear included (no
\* streaming node for which the job has no buffer keeps one on its list); the
\* block of such a buffer is not enabled in the words written to the hardware;
\* and when the job completes the buffer is returned as done with the others.
C24_UnneededConsumed ==
  [][/\ \A k \in DOMAIN log'.admitted :
          LET J == log'.admitted[k]
          IN \A n \in streaming_map'[J.node_group] :
                /\ J.buf[n] = 0 => ready_queue'[J.node_group][n] = <<>>
                /\ J.buf[n] # 0 => J.buf[n] \notin Range(ready_queue'[J.node_group][n])
     /\ \A k \in DOMAIN log'.job :
          LET J == log'.job[k]
          IN \A n \in ConditionalNodes :
                Unneeded(J, n) =>
                  \A w \in Written(log', "GLOBAL_BAYER_ENABLE")
                            \cup Written(log', "GLOBAL_RGB_ENABLE") :
                     FeatureBit(n) \notin w
     /\ \A k \in DOMAIN log'.completed :
          LET J == log'.completed[k]
          IN \A n \in Nodes :
                J.buf[n] # 0 =>
                  \E i \in DOMAIN log'.returned :
                     /\ log'.returned[i].group = J.node_group
                     /\ log'.returned[i].node = n
                     /\ log'.returned[i].buf = J.buf[n]
                     /\ log'.returned[i].state = "DONE"]_vars

\* an interrupt completed a job that held an output 0 buffer although its
\* config does not enable output 0, and the buffer was returned as done
C24_Witness ==
  /\ log.isr
  /\ \E k \in DOMAIN log.completed :
        /\ Unneeded(log.completed[k], OUTPUT0_NODE)
        /\ \E i \in DOMAIN log.returned :
              /\ log.returned[i].node = OUTPUT0_NODE
              /\ log.returned[i].buf = log.completed[k].buf[OUTPUT0_NODE]
              /\ log.returned[i].state = "DONE"

\* the case of C25: the interrupt found the started counter advanced and a job
\* in the queued slot
C25_Case ==
  /\ log.isr
  /\ log.pre.started # log.pre.hs
  /\ log.pre.queued_job # EmptyJob

\* the hardware done counter is k ahead of the shadow done the interrupt found
DoneAdvancedBy(k) == log.pre.hd = (log.pre.done + k) % U8

\* the interrupt completed the job it found in the queued slot
QueuedCompleted == log.pre.queued_job \in Range(log.completed)

C26_NoResync ==
  log.isr => /\ ~log.resync
             /\ started = log.pre.hs
             /\ done = log.pre.hd

\* one interrupt found done two ahead and started one ahead, completed two
\* jobs and needed no resynchronisation
C26_Witness ==
  /\ log.isr
  /\ log.pre.hs = Inc8(log.pre.started)
  /\ log.pre.hd = Inc8(Inc8(log.pre.done))
  /\ Len(log.completed) = 2
  /\ ~log.resync

\* how many of the pending jobs the hardware has not finished: those whose go
\* write is still to come, the one programmed and the one executing
Unfinished ==
  Len(dispatch) + (IF hwQueued THEN 1 ELSE 0) + (IF hwRunning THEN 1 ELSE 0)

\* C27: with hardware that counts one done per finished job, a step completes
\* no more jobs than the hardware done counter is ahead of the shadow done and
\* no more than the hardware has finished, and never a job whose go write is
\* still to come.
C27_NoPrematureCompletion ==
  [][/\ Len(log'.completed) <= (hwDone - done + U8) % U8
     /\ Len(log'.completed) <= Len(pending) - Unfinished
     /\ \A k \in DOMAIN log'.completed :
          \A i \in DOMAIN dispatch :
             log'.completed[k] # [node_group |-> dispatch[i].node_group,
                                  buf |-> dispatch[i].buf]]_vars

\* an interrupt ran between the admission of a job and its go write: it
\* completed the running job and left the queued job alone
C27_Witness ==
  /\ log.isr
  /\ Len(log.completed) = 1
  /\ Len(dispatch) = 1
  /\ dispatch[1].ctx = "thread"
  /\ queued_job = [node_group |-> dispatch[1].node_group, buf |-> dispatch[1].buf]
  /\ queued_job \notin Range(log.completed)

\* hw_busy as a step without admission leaves it cleared, or set by the
\* admission the step made
ClearedBusy == hw_busy = (IF Admitted THEN 1 ELSE 0)

\* C28: an interrupt clears hw_busy exactly when it finds the hardware started
\* counter different from the shadow started. An interrupt that finds only the
\* done counter advanced, or no change, and hw_busy set, leaves it set and makes
\* no admission attempt.
C28_BusyFreedOnStart ==
  log.isr =>
    IF log.pre.started # log.pre.hs
      THEN ClearedBusy
      ELSE IF log.pre.hw_busy = 1
             THEN hw_busy = 1 /\ log.tried = <<>>
             ELSE ClearedBusy

\* an interrupt found hw_busy set and only the done counter advanced, while a
\* config and a main-input buffer wait on the ready lists of a group
C28_Witness ==
  /\ log.isr
  /\ log.pre.hw_busy = 1
  /\ log.pre.started = log.pre.hs
  /\ log.pre.done # log.pre.hd
  /\ log.completed # <<>>
  /\ \E g \in Groups :
        /\ {CONFIG_NODE, MAIN_INPUT_NODE} \subseteq streaming_map[g]
        /\ ready_queue[g][CONFIG_NODE] # <<>>
        /\ ready_queue[g][MAIN_INPUT_NODE] # <<>>

\* C29 as stated: the interrupt handler never runs while a job has been
\* admitted and its go write is still to come.
C29_Original == [][log'.isr => dispatch = <<>>]_vars

\* C29 amended: an interrupt handler that runs between the admission of a job
\* and its go write finds the started counter unchanged; it leaves hw_busy
\* set and the queued slot and the dispatch in progress as they are, and
\* admits nothing (it completes the running job at most).
C29_Amended ==
  [][(log'.isr /\ dispatch # <<>>)
     => /\ log'.pre.started = log'.pre.hs
        /\ hw_busy = 1 /\ hw_busy' = 1
        /\ queued_job = [node_group |-> dispatch[1].node_group,
                         buf |-> dispatch[1].buf]
        /\ queued_job' = queued_job
        /\ dispatch' = dispatch
        /\ log'.tried = <<>>
        /\ log'.completed \in {<<>>, <<running_job>>}]_vars

\* an interrupt ran while a thread was between the admission of a job and its
\* go write, and completed the job that was running
C29_Witness ==
  /\ log.isr
  /\ dispatch # <<>>
  /\ log.pre.hw_busy = 1
  /\ hw_busy = 1
  /\ log.pre.queued_job = queued_job
  /\ log.completed = <<log.pre.running_job>>

\* an admission attempt for group g would succeed (the test of
\* pispbe_schedule_internal, lines 524-597)
Admissible(g) ==
  /\ {CONFIG_NODE, MAIN_INPUT_NODE} \subseteq streaming_map[g]
  /\ ready_queue[g][CONFIG_NODE] # <<>>
  /\ \A n \in Nodes \ {CONFIG_NODE} :
        StreamingEmpty(g, n) =>
          /\ n \in ConditionalNodes
          /\ FeatureBit(n) \notin FrontConfig(g).bayer_enables
                                    \cup FrontConfig(g).rgb_enables

\* C30: the pispbe_schedule_any call of an interrupt that finds the hardware
\* free tries the groups in index order from group 0 and stops at the first
\* success; it admits at most one job; when groups 0 and 1 are both admissible
\* it admits the job of group 0 and leaves the ready lists of group 1 as they
\* are.
C30_FixedScanOrder ==
  [][log'.isr =>
       /\ \A k \in DOMAIN log'.tried :
             /\ log'.tried[k].group = k - 1
             /\ k < Len(log'.tried) => log'.tried[k].ret = 0
       /\ Len(log'.admitted) <= 1
       /\ (log'.tried # <<>> /\ Admissible(0) /\ Admissible(1))
          => /\ Len(log'.tried) = 1
             /\ Len(log'.admitted) = 1
             /\ log'.admitted[1].node_group = 0
             /\ ready_queue'[1] = ready_queue[1]]_vars

\* the interrupt admitted the job of group 0 at the first attempt and the
\* config and main-input buffers of group 1 are still on their ready lists
C30_Witness ==
  /\ log.isr
  /\ Len(log.tried) = 1
  /\ Len(log.admitted) = 1
  /\ log.admitted[1].node_group = 0
  /\ {CONFIG_NODE, MAIN_INPUT_NODE} \subseteq streaming_map[1]
  /\ ready_queue[1][CONFIG_NODE] # <<>>
  /\ ready_queue[1][MAIN_INPUT_NODE] # <<>>

\* ------------------------------------------------ group 0 under sustained load
\* Both groups stream their config and main-input nodes.  The client of group 0
\* queues every buffer it holds; the client of group 1 queues while the hardware
\* is busy; the hardware is well behaved and starts a job only after the
\* previous interrupt has been served and group 0 has a set of buffers ready.
\* The run is cut after LoadRounds completed jobs of group 0.
LoadRounds == 6

LoadRunning == sequence[0] < LoadRounds

LoadQueue(g, n, b) ==
  /\ LoadRunning
  /\ CanQueue(g, n, b)
  /\ g # 0 => hw_busy = 1
  /\ Commit(pispbe_node_buffer_queue(Dev("thread"), g, n, b,
              IF n = CONFIG_NODE THEN InputOnly ELSE NoConfig))
  /\ UNCHANGED <<waiting, hw, nops>>

LoadHwQueueJob == LoadRunning /\ HwQueueJob(1, N_HW_ADDRESSES, 0)

LoadHwStart == LoadRunning /\ ~irq /\ Admissible(0) /\ HwStart

LoadHwFinish == LoadRunning /\ HwFinish

LoadIsr == LoadRunning /\ Isr

InitLoad ==
  /\ ready_queue = [g \in Groups |-> [n \in Nodes |-> <<>>]]
  /\ owned = [g \in Groups |-> [n \in Nodes |-> {}]]
  /\ config = [g \in Groups |-> [b \in Bufs |-> NoConfig]]
  /\ streaming_map = [g \in Groups |-> {CONFIG_NODE, MAIN_INPUT_NODE}]
  /\ waiting = {}
  /\ sequence = [g \in Groups |-> 0]
  /\ hw_busy = 0
  /\ queued_job = EmptyJob
  /\ running_job = EmptyJob
  /\ \E c \in InitCounters :
        /\ done = c /\ started = c /\ hwDone = c /\ hwStarted = c
  /\ dispatch = <<>>
  /\ format = [g \in Groups |-> Formats]
  /\ hwQueued = FALSE
  /\ hwRunning = FALSE
  /\ hwTiles = 0
  /\ irq = FALSE
  /\ nops = 0
  /\ arrived = [g \in Groups |-> [n \in Nodes |-> <<>>]]
  /\ pending = <<>>
  /\ log = EmptyLog

NextLoad ==
  \/ \E g \in Groups, n \in Nodes, b \in Bufs : LoadQueue(g, n, b)
  \/ LoadHwQueueJob
  \/ LoadHwStart
  \/ LoadHwFinish
  \/ LoadIsr

SpecLoad == InitLoad /\ [][NextLoad]_vars

\* C31: with well-behaved hardware and every interrupt served, group 1 can
\* starve: under sustained load on group 0 every admission is one of group 0,
\* and group 1, once it has a complete admissible set of buffers, keeps it
\* without ever being admitted.
C31_Starvation ==
  [][/\ \A k \in DOMAIN log'.admitted : log'.admitted[k].node_group = 0
     /\ Admissible(1) => Admissible(1)'
     /\ (log'.isr /\ hw_busy = 1 /\ started # hwStarted) => Admissible(0)]_vars

\* group 0 has completed LoadRounds jobs, the last interrupt freed the busy
\* flag and admitted group 0 again, group 1 is admissible and has had no job
C31_Witness ==
  /\ sequence[0] = LoadRounds
  /\ sequence[1] = 0
  /\ Admissible(1)
  /\ \A k \in DOMAIN pending : pending[k].node_group = 0

\* an admission attempt for group g would succeed in this state
AdmissionSucceeds(g) == pispbe_schedule_internal(Dev("thread"), g).ret # 0

\* C32: in every state between handlers (no scheduling call or interrupt
\* handler in progress) with hw_busy clear, no node group satisfies the
\* admission condition.
C32_NoIdleAdmissible ==
  hw_busy = 0 => \A g \in Groups : ~AdmissionSucceeds(g)

\* every step but the return of pispbe_node_stop_streaming preserves it
C32_ExceptStop ==
  [][(C32_NoIdleAdmissible /\ log'.stopped = <<>>) => C32_NoIdleAdmissible']_vars

\* the queued slot holds a job whose dispatch has ended without a go write:
\* nothing is programmed in the hardware and no start is left to reconcile
AbortedQueued ==
  /\ queued_job # EmptyJob
  /\ hw_busy = 1
  /\ \A k \in DOMAIN dispatch : dispatch[k].buf # queued_job.buf
  /\ ~hwQueued
  /\ hwStarted = started

\* the buffers of job J are still owned by the driver
StillOwned(J) == \A n \in Nodes : J.buf[n] # 0 => J.buf[n] \in owned[J.node_group][n]

\* C33: a dispatch aborted by a read-back mismatch leaves the job in the queued
\* slot with hw_busy set; from then on the slot, hw_busy and the started counter
\* do not change, no job of any group is admitted and the buffers of the aborted
\* job are not returned.
C33_AbortWedges ==
  [][/\ (log'.mismatch >= 0 /\ log'.mismatch < N_HW_ADDRESSES)
          => (AbortedQueued' /\ queued_job'.buf = log'.job[1].buf)
     /\ AbortedQueued
          => /\ AbortedQueued'
             /\ queued_job' = queued_job
             /\ started' = started
             /\ log'.admitted = <<>>
             /\ StillOwned(queued_job)']_vars

\* after an aborted dispatch a thread has queued a complete set of buffers for
\* the group, which satisfies the admission condition, and nothing was admitted
C33_Witness ==
  /\ AbortedQueued
  /\ log.mismatch = -1
  /\ log.admitted = <<>>
  /\ \E g \in Groups : Admissible(g)

\* --------------------------------------------------- hardware that makes progress
\* One client drives the config and main-input nodes of group 0.  No dispatch is
\* aborted; a dispatch in progress reaches its go write, the hardware starts and
\* finishes what it was given, a pending interrupt is served, and
\* vb2_wait_for_all_buffers returns once the node's buffers are back.
LiveNodes == {CONFIG_NODE, MAIN_INPUT_NODE}

HwQueueJobOk == \E junk \in JunkValues : HwQueueJob(1, N_HW_ADDRESSES, junk)

NextLive ==
  \/ \E n \in LiveNodes, b \in Bufs, c \in Configs \cup {NoConfig} :
        BufferQueue(0, n, b, c)
  \/ \E n \in LiveNodes : StreamOn(0, n)
  \/ \E n \in LiveNodes : StopStreaming(0, n)
  \/ \E n \in LiveNodes : StopStreamingReturn(0, n)
  \/ HwQueueJobOk
  \/ HwStart
  \/ HwFinish
  \/ Isr

\* Weak fairness of the hardware, of the interrupt handler, of the dispatch in
\* progress and of the return of vb2_wait_for_all_buffers.  For Isr and
\* HwQueueJobOk it is written out, WF_vars(A) being []<>~ENABLED <<A>>_vars \/
\* []<><<A>>_vars: Isr is enabled when IsrEnabled holds and is the only step
\* that sets log.isr, HwQueueJobOk is enabled when a dispatch is in progress and
\* is the only step that writes registers.
IsrEnabled == irq /\ \A k \in 1 .. Len(dispatch) : dispatch[k].ctx # "isr"

Fairness ==
  /\ WF_vars(HwStart)
  /\ WF_vars(HwFinish)
  /\ ([]<>~IsrEnabled) \/ ([]<><<log'.isr>>_vars)
  /\ ([]<>(dispatch = <<>>)) \/ ([]<><<log'.regs # <<>>>>_vars)
  /\ \A n \in LiveNodes : WF_vars(StopStreamingReturn(0, n))

SpecLive == Init /\ [][NextLive]_vars /\ Fairness

\* the same with VIDIOC_STREAMON called only on a node that does not stream
NextLiveOnce ==
  \/ \E n \in LiveNodes, b \in Bufs, c \in Configs \cup {NoConfig} :
        BufferQueue(0, n, b, c)
  \/ \E n \in LiveNodes : n \notin streaming_map[0] /\ StreamOn(0, n)
  \/ \E n \in LiveNodes : StopStreaming(0, n)
  \/ \E n \in LiveNodes : StopStreamingReturn(0, n)
  \/ HwQueueJobOk
  \/ HwStart
  \/ HwFinish
  \/ Isr

SpecLiveOnce == Init /\ [][NextLiveOnce]_vars /\ Fairness

\* C34: when no dispatch is aborted and every dispatched job raises its started
\* and done interrupts, every call of pispbe_node_stop_streaming returns.
C34_StopReturns ==
  \A n \in LiveNodes : (<<0, n>> \in waiting) ~> (<<0, n>> \notin waiting)

\* a buffer the driver owns that is on no ready list and in no job
LostBuffer(g, n) ==
  \E b \in owned[g][n] :
     /\ b \notin Range(ready_queue[g][n])
     /\ queued_job.node_group = g => queued_job.buf[n] # b
     /\ running_job.node_group = g => running_job.buf[n] # b

\* the call waits only for buffers that the queued or the running job holds
C34_WaitsForJobs ==
  \A g \in Groups : \A n \in Nodes : <<g, n>> \in waiting => ~LostBuffer(g, n)

\* buffer b of node n is owned by the driver, on no ready list and in no job
Lost(g, n, b) ==
  /\ b \in owned[g][n]
  /\ b \notin Range(ready_queue[g][n])
  /\ queued_job.node_group = g => queued_job.buf[n] # b
  /\ running_job.node_group = g => running_job.buf[n] # b

\* no handler returns such a buffer: the call that waits for it waits for ever
C34_LostStaysLost ==
  [][\A g \in Groups : \A n \in Nodes : \A b \in Bufs :
       Lost(g, n, b) => Lost(g, n, b)' /\ (<<g, n>> \in waiting => <<g, n>> \in waiting')]_vars

\* there is no timeout: while the aborted job in the queued slot refers to a
\* buffer of the node, the call does not return
C34_NoTimeout ==
  [][\A g \in Groups : \A n \in Nodes :
       (<<g, n>> \in waiting /\ AbortedQueued /\ SlotRefers(queued_job, g, n))
          => <<g, n>> \in waiting']_vars

\* the positions of the writes to register r in the last dispatch
WritesTo(r) == {i \in DOMAIN log.regs : log.regs[i].reg = r}

\* C35: a dispatch writes the 14 plane addresses in index order, then the two
\* enable words, then the config window; when every address read back as
\* written it then writes the tile-descriptor pointer and, last and exactly
\* once, the control register with the tile count and the go bits; an aborted
\* dispatch writes neither.
C35_RegisterOrder ==
  log.job # <<>> =>
    /\ WritesTo("IO_ADDR") = 1 .. N_HW_ADDRESSES
    /\ \A i \in 1 .. N_HW_ADDRESSES : log.regs[i].u = i - 1
    /\ WritesTo("GLOBAL_BAYER_ENABLE") = {N_HW_ADDRESSES + 1}
    /\ WritesTo("GLOBAL_RGB_ENABLE") = {N_HW_ADDRESSES + 2}
    /\ WritesTo("CONFIG") = {N_HW_ADDRESSES + 3}
    /\ IF log.mismatch = N_HW_ADDRESSES
         THEN /\ WritesTo("TILE_ADDR") = {N_HW_ADDRESSES + 4}
              /\ WritesTo("CONTROL") = {N_HW_ADDRESSES + 5}
              /\ Len(log.regs) = N_HW_ADDRESSES + 5
              /\ log.regs[Len(log.regs)].val = 3 + 65536 * hwTiles
         ELSE /\ WritesTo("TILE_ADDR") = {}
              /\ WritesTo("CONTROL") = {}
              /\ Len(log.regs) = N_HW_ADDRESSES + 3

\* a dispatch whose read-backs all matched has written the go bits
C35_Witness ==
  /\ log.job # <<>>
  /\ log.mismatch = N_HW_ADDRESSES
  /\ log.regs[Len(log.regs)].reg = "CONTROL"
  /\ log.regs[Len(log.regs)].val = 3 + 65536
  /\ hwQueued

\* C36: every call of pispbe_schedule_one or pispbe_schedule_any takes hw_lock
\* once and releases it exactly once: pispbe_schedule_internal releases it when
\* it admits a job, the caller otherwise; when hw_queue_job is called the caller
\* holds neither hw_lock nor a ready_lock.
C36_LockReleasedOnce ==
  /\ log.hw_lock # <<>> =>
        /\ Len(log.hw_lock) = 2
        /\ log.hw_lock[1].op = "lock"
        /\ log.hw_lock[1].by \in {"pispbe_schedule_one", "pispbe_schedule_any"}
        /\ log.hw_lock[2].op = "unlock"
        /\ log.hw_lock[2].by = IF log.admitted # <<>>
                                  THEN "pispbe_schedule_internal"
                                  ELSE log.hw_lock[1].by
  /\ log.tried # <<>> => log.hw_lock # <<>>
  /\ Len(log.held) = Len(log.admitted)
  /\ \A k \in DOMAIN log.held : log.held[k] = NoLocks

\* the interrupt handler admitted a job that takes buffers from two ready
\* lists: hw_lock was released by pispbe_schedule_internal
C36_Witness ==
  /\ log.isr
  /\ Len(log.admitted) = 1
  /\ log.admitted[1].buf[CONFIG_NODE] # 0
  /\ log.admitted[1].buf[MAIN_INPUT_NODE] # 0
  /\ log.hw_lock = << [op |-> "lock", by |-> "pispbe_schedule_any"],
                       [op |-> "unlock", by |-> "pispbe_schedule_internal"] >>
  /\ log.held = << NoLocks >>

\* the DMA channels the sanitizer gates: enable bit, enable word (1 Bayer,
\* 2 RGB), node, first address register
Channels ==
  { [bit |-> "TDN_INPUT", word |-> 1, node |-> TDN_INPUT_NODE, addr |-> 3],
    [bit |-> "STITCH_INPUT", word |-> 1, node |-> STITCH_INPUT_NODE, addr |-> 4],
    [bit |-> "TDN_OUTPUT", word |-> 1, node |-> TDN_OUTPUT_NODE, addr |-> 5],
    [bit |-> "STITCH_OUTPUT", word |-> 1, node |-> STITCH_OUTPUT_NODE, addr |-> 6],
    [bit |-> "OUTPUT0", word |-> 2, node |-> OUTPUT0_NODE, addr |-> 7],
    [bit |-> "OUTPUT1", word |-> 2, node |-> OUTPUT1_NODE, addr |-> 10],
    [bit |-> "HOG", word |-> 2, node |-> HOG_OUTPUT_NODE, addr |-> 13] }

\* the enable word w written by the last dispatch
EnableWritten(w) ==
  CHOOSE e \in Written(log, IF w = 1 THEN "GLOBAL_BAYER_ENABLE"
                                     ELSE "GLOBAL_RGB_ENABLE") : TRUE

\* C37: every DMA channel enable bit set in the words written to the hardware
\* belongs to a node whose buffer is in the job, and the channel's address
\* register holds that buffer's non-zero address; a channel without a buffer has
\* its bit cleared.
C37_EnabledHasBuffer ==
  log.job # <<>> =>
    \A ch \in Channels :
       /\ ch.bit \in EnableWritten(ch.word) =>
             /\ log.job[1].buf[ch.node] # 0
             /\ IoAddr(ch.addr) # 0
             /\ IoAddr(ch.addr) =
                  vb2_dma_contig_plane_dma_addr(ch.node, log.job[1].buf[ch.node], 0)
       /\ log.job[1].buf[ch.node] = 0 => ch.bit \notin EnableWritten(ch.word)

\* a config that requests all seven channels and a job that has the buffers of
\* the TDN channels only: the TDN bits are written, the other five are cleared
C37_Witness ==
  /\ log.job # <<>>
  /\ \A ch \in Channels :
        /\ ch.bit \in (DispatchedConfig.bayer_enables \cup DispatchedConfig.rgb_enables)
        /\ ch.bit \in EnableWritten(ch.word)
             <=> ch.node \in {TDN_INPUT_NODE, TDN_OUTPUT_NODE}

\* the main input of the last dispatch was found (lines 426-435 did not return)
MainInputFound ==
  /\ log.job[1].buf[MAIN_INPUT_NODE] # 0
  /\ format[log.job[1].node_group][MAIN_INPUT_NODE].pisp_format

\* C38: for a request with Bayer input: with the TDN reset flag set the word
\* written has neither the TDN-input nor the TDN-decompress bit and has the TDN
\* bit exactly when the config requests it; with the flag clear, when the job has
\* no TDN input buffer or the config does not request both the TDN-input and the
\* TDN bit, the word has none of TDN-input, TDN-decompress and TDN.
C38_TdnReset ==
  (/\ log.job # <<>>
   /\ MainInputFound
   /\ "BAYER_INPUT" \in DispatchedConfig.bayer_enables)
  => LET req == DispatchedConfig.bayer_enables
         w == EnableWritten(1)
     IN /\ DispatchedConfig.tdn_reset = 1 =>
              /\ "TDN_INPUT" \notin w
              /\ "TDN_DECOMPRESS" \notin w
              /\ "TDN" \in w <=> "TDN" \in req
        /\ (/\ DispatchedConfig.tdn_reset = 0
            /\ \/ log.job[1].buf[TDN_INPUT_NODE] = 0
               \/ "TDN_INPUT" \notin req
               \/ "TDN" \notin req)
           => w \cap {"TDN_INPUT", "TDN_DECOMPRESS", "TDN"} = {}

\* the reset flag is set, the config requests every TDN bit and the job has the
\* TDN input buffer: the TDN bit is written, TDN-input and TDN-decompress are not
C38_Witness ==
  /\ log.job # <<>>
  /\ MainInputFound
  /\ DispatchedConfig.tdn_reset = 1
  /\ BayerInput \cup TdnBits \subseteq DispatchedConfig.bayer_enables
  /\ log.job[1].buf[TDN_INPUT_NODE] # 0
  /\ "TDN" \in EnableWritten(1)
  /\ "TDN_INPUT" \notin EnableWritten(1)

\* C39: each enable word written to the hardware is a subset of the word the
\* config requests, and the dispatch leaves the config as it was: the config
\* window is written from the unmodified config.
C39_OnlyNarrows ==
  [][log'.job # <<>> =>
       LET cfg == config[log'.job[1].node_group][log'.job[1].config_index]
       IN /\ Written(log', "GLOBAL_BAYER_ENABLE") \subseteq SUBSET cfg.bayer_enables
          /\ Written(log', "GLOBAL_RGB_ENABLE") \subseteq SUBSET cfg.rgb_enables
          /\ Written(log', "GLOBAL_BAYER_ENABLE") # {}
          /\ Written(log', "GLOBAL_RGB_ENABLE") # {}
          /\ Written(log', "CONFIG") = {cfg}
          /\ config' = config]_vars

\* the sanitizer cleared bits of both words and left bits in both
C39_Witness ==
  /\ log.job # <<>>
  /\ EnableWritten(1) # {}
  /\ EnableWritten(1) # DispatchedConfig.bayer_enables
  /\ EnableWritten(2) # {}
  /\ EnableWritten(2) # DispatchedConfig.rgb_enables

\* by how much the hardware counter hwc is ahead of the shadow counter, modulo 256
Advance(shadow, hwc) == (hwc - shadow + U8) % U8

\* a shadow counter is 255 and the hardware counter has wrapped to 0
Wraps == (started = 255 /\ hwStarted = 0) \/ (done = 255 /\ hwDone = 0)

\* counter x moved four further on, where 255 and 0 become 3 and 4
Shifted(x) == (x + 4) % U8

\* the same interrupt with all four counters shifted: no counter wraps
Unwrapped ==
  pispbe_isr([Dev("isr") EXCEPT !.started = Shifted(@), !.done = Shifted(@)],
             Shifted(hwStarted), Shifted(hwDone))

\* the jobs in the slots account for the advance of the counters
Accounted ==
  LET sa == Advance(started, hwStarted)
      da == Advance(done, hwDone)
  IN /\ sa <= 1
     /\ sa = 1 => queued_job # EmptyJob
     /\ da <= (IF running_job # EmptyJob THEN 1 ELSE 0) + sa

\* C40: an interrupt that finds a shadow counter at 255 and the hardware counter
\* at 0 is handled as the same advance is handled anywhere else: the slots, the
\* busy flag, the completions, the admission and the resynchronisation flag are
\* those of the interrupt with all counters shifted, the shadow counter becomes
\* 0, and when the jobs in the slots account for the advance the running job is
\* completed, the queued job is promoted or completed, and no
\* resynchronisation is logged.
C40_WrapAround ==
  [][(log'.isr /\ Wraps) =>
       /\ <<queued_job', running_job', hw_busy', ready_queue', owned', sequence',
             dispatch', log'.completed, log'.admitted, log'.returned,
             log'.resync>>
          = <<Unwrapped.queued_job, Unwrapped.running_job, Unwrapped.hw_busy,
              Unwrapped.ready_queue, Unwrapped.owned, Unwrapped.sequence,
              Unwrapped.dispatch, Unwrapped.log.completed, Unwrapped.log.admitted,
              Unwrapped.log.returned, Unwrapped.log.resync>>
       /\ Shifted(started') = Unwrapped.started
       /\ Shifted(done') = Unwrapped.done
       /\ (started = 255 /\ hwStarted = 0) => started' = 0
       /\ (done = 255 /\ hwDone = 0) => done' = 0
       /\ Accounted =>
             /\ ~log'.resync
             /\ (done # hwDone /\ running_job # EmptyJob)
                  => running_job \in Range(log'.completed)
             /\ started # hwStarted
                  => \/ running_job' = queued_job
                     \/ queued_job \in Range(log'.completed)]_vars

\* the started counter went from 255 to 0: the queued job was promoted, the
\* busy flag was freed for the next admission, nothing was resynchronised
C40_Witness ==
  /\ log.isr
  /\ log.pre.started = 255 /\ log.pre.hs = 0
  /\ started = 0
  /\ ~log.resync
  /\ log.pre.queued_job # EmptyJob
  /\ running_job = log.pre.queued_job

====
